---- MODULE Spec2Model ----
(***************************************************************************)
(* Model of the turtle sandbox: the in-memory Filesystem                   *)
(* (internal/sandbox/filesystem.go), the goal DSL evaluator                *)
(* (internal/content/goal.go) and the MissionRunner                        *)
(* (internal/sandbox/mission.go).                                          *)
(*                                                                         *)
(* Go File pointers are indices     into one shared heap, a sequence of     *)
(* File records; NULL is the nil pointer.  A Go string that is used as a   *)
(* path is represented by the sequence strings.Split(s, "/") would         *)
(* return, so "/a/b" is <<"", "a", "b">>, "/" is <<"", "">>, "~/x" is      *)
(* <<"~", "x">> and "" is <<"">>.  File contents and command output are    *)
(* sequences of text pieces.  ModTime is not modelled: no operation reads  *)
(* it.                                                                     *)
(***************************************************************************)
EXTENDS Integers, Sequences, FiniteSets, TLC

VARIABLES heap, FS, InitialFS, Mission, Attempts, Completed, History, Tmux, last,
          status

vars == <<heap, FS, InitialFS, Mission, Attempts, Completed, History, Tmux, last, status>>

\* ---------------------------------------------------------------- bounds
MaxNodes == 28
MaxHistory == 2
MaxContent == 4
MaxPanes == 3
MaxWindows == 3
MaxDepth == 2

\* ------------------------------------------------------------- constants
NULL == 0
Nil == "nil"

FileTypeRegular == 0
FileTypeDirectory == 1
FileTypeHidden == 2

EmptyStr == <<"">>
Slash == <<"", "">>
HomePath == <<"", "home", "learner">>

ErrNotFound == "no such file or directory"
ErrNotADirectory == "not a directory"
ErrIsADirectory == "is a directory"
ErrIsADirectoryRm == "is a directory (use rm -r)"
ErrIsADirectoryCp == "is a directory (use cp -r)"
ErrRemoveRoot == "cannot remove root"

Range(s) == {s[i] : i \in 1..Len(s)}

\* ------------------------------------------------------- string helpers
\* strings.HasPrefix(s, ".") for a name or path segment.
HasDotPrefix(s) == s \in {".", "..", ".d", ".bashrc"}

\* strings.HasPrefix(path, "/") on the split form of a path.
HasSlashPrefix(p) == Len(p) >= 2 /\ p[1] = ""

\* strings.HasPrefix(path, "~/") on the split form of a path.
HasTildeSlashPrefix(p) == Len(p) >= 2 /\ p[1] = "~"

\* The split form of a File.Name: the root's name is "/".
NameSplit(name) == IF name = "/" THEN Slash ELSE <<name>>

\* ------------------------------------------------------- path/filepath
RECURSIVE CleanSegs(_, _, _)
CleanSegs(in, out, rooted) ==
  IF in = <<>> THEN out
  ELSE LET s == Head(in) IN
    IF s = "" \/ s = "." THEN CleanSegs(Tail(in), out, rooted)
    ELSE IF s = ".." THEN
      IF out # <<>> /\ out[Len(out)] # ".."
        THEN CleanSegs(Tail(in), SubSeq(out, 1, Len(out) - 1), rooted)
      ELSE IF rooted THEN CleanSegs(Tail(in), out, rooted)
      ELSE CleanSegs(Tail(in), Append(out, ".."), rooted)
    ELSE CleanSegs(Tail(in), Append(out, s), rooted)

\* filepath.Clean
Clean(p) ==
  LET Cleaned(rooted, segs) ==
        IF rooted THEN (IF segs = <<>> THEN Slash ELSE <<"">> \o segs)
        ELSE IF segs = <<>> THEN <<".">> ELSE segs
  IN IF p = EmptyStr THEN <<".">>
     ELSE Cleaned(HasSlashPrefix(p), CleanSegs(p, <<>>, HasSlashPrefix(p)))

\* filepath.Join(a, b): a + "/" + b, cleaned; empty elements are ignored.
Join(a, b) ==
  IF a = EmptyStr /\ b = EmptyStr THEN EmptyStr
  ELSE Clean(IF a = EmptyStr THEN b ELSE IF b = EmptyStr THEN a ELSE a \o b)

\* filepath.Dir of a cleaned path.
Dir(p) ==
  IF HasSlashPrefix(p)
    THEN (IF p = Slash \/ Len(p) = 2 THEN Slash ELSE SubSeq(p, 1, Len(p) - 1))
    ELSE (IF Len(p) <= 1 THEN <<".">> ELSE SubSeq(p, 1, Len(p) - 1))

\* filepath.Base of a cleaned path, as a name.
Base(p) ==
  IF p = EmptyStr THEN "."
  ELSE IF p = Slash THEN "/"
  ELSE p[Len(p)]

splitPath(path) ==
  LET Split(c) == IF c = Slash THEN <<>>
                  ELSE IF HasSlashPrefix(c) THEN Tail(c) ELSE c
  IN Split(Clean(path))

resolvePath(fs, path) ==
  LET Resolve(p) == IF HasSlashPrefix(p) THEN Clean(p) ELSE Join(fs.CwdPath, p) IN
  IF path = EmptyStr THEN fs.CwdPath
  ELSE IF path = <<"~">> THEN fs.Home
  ELSE Resolve(IF HasTildeSlashPrefix(path) THEN fs.Home \o Tail(path) ELSE path)

\* ------------------------------------------------------------ tree walk
RECURSIVE findChildFrom(_, _, _)
findChildFrom(h, kids, name) ==
  IF kids = <<>> THEN NULL
  ELSE IF h[Head(kids)].Name = name THEN Head(kids)
  ELSE findChildFrom(h, Tail(kids), name)

findChild(h, dir, name) == findChildFrom(h, h[dir].Children, name)

RECURSIVE getNodeWalk(_, _, _)
getNodeWalk(h, current, parts) ==
  LET Step(child) ==
        IF child = NULL THEN NULL ELSE getNodeWalk(h, child, Tail(parts))
  IN IF parts = <<>> THEN current
     ELSE IF Head(parts) = "" THEN getNodeWalk(h, current, Tail(parts))
     ELSE Step(findChild(h, current, Head(parts)))

\* getNode: the node a path names, NULL standing for the not-found error.
getNode(h, fs, path) ==
  IF path = Slash THEN fs.Root ELSE getNodeWalk(h, fs.Root, splitPath(path))

\* &File{...}: a fresh File record.
NewFile(name, type, parent) ==
  [Name |-> name, Type |-> type, Content |-> <<>>, Children |-> <<>>,
   Parent |-> parent, Size |-> 0]

\* parent.Children = append(parent.Children[:i], parent.Children[i+1:]...)
\* for the first i with parent.Children[i] == node.
RECURSIVE RemoveFirst(_, _)
RemoveFirst(kids, node) ==
  IF kids = <<>> THEN <<>>
  ELSE IF Head(kids) = node THEN Tail(kids)
  ELSE <<Head(kids)>> \o RemoveFirst(Tail(kids), node)

\* ----------------------------------------------------------- Filesystem
\* Every operation takes the heap and the Filesystem struct and returns the
\* heap after the call, the error (Nil for none) and its own results.

\* A walk that creates a missing directory and does not step into it.
RECURSIVE MkdirWalkFlat(_, _, _)
MkdirWalkFlat(h, current, parts) ==
  LET Create(part, id) ==
        Append([h EXCEPT ![current].Children = Append(@, id)],
               NewFile(part,
                       IF HasDotPrefix(part) THEN FileTypeHidden
                                             ELSE FileTypeDirectory,
                       current))
      Step(part, child) ==
        IF child = NULL
          THEN MkdirWalkFlat(Create(part, Len(h) + 1), current, Tail(parts))
        ELSE IF h[child].Type = FileTypeDirectory \/ h[child].Type = FileTypeHidden
          THEN MkdirWalkFlat(h, child, Tail(parts))
        ELSE [h |-> h, err |-> ErrNotADirectory]
  IN IF parts = <<>> THEN [h |-> h, err |-> Nil]
     ELSE IF Head(parts) = "" THEN MkdirWalkFlat(h, current, Tail(parts))
     ELSE Step(Head(parts), findChild(h, current, Head(parts)))

RECURSIVE MkdirWalk(_, _, _)
MkdirWalk(h, current, parts) ==
  LET Create(part, id) ==
        Append([h EXCEPT ![current].Children = Append(@, id)],
               NewFile(part,
                       IF HasDotPrefix(part) THEN FileTypeHidden
                                             ELSE FileTypeDirectory,
                       current))
      Step(part, child) ==
        IF child = NULL
          THEN MkdirWalk(Create(part, Len(h) + 1), Len(h) + 1, Tail(parts))
        ELSE IF h[child].Type = FileTypeDirectory \/ h[child].Type = FileTypeHidden
          THEN MkdirWalk(h, child, Tail(parts))
        ELSE [h |-> h, err |-> ErrNotADirectory]
  IN IF parts = <<>> THEN [h |-> h, err |-> Nil]
     ELSE IF Head(parts) = "" THEN MkdirWalk(h, current, Tail(parts))
     ELSE Step(Head(parts), findChild(h, current, Head(parts)))

Mkdir(h, fs, path) == MkdirWalk(h, fs.Root, splitPath(resolvePath(fs, path)))

Touch(h, fs, path) ==
  LET Create(m, parent, name) ==
        IF parent = NULL THEN [h |-> m.h, err |-> ErrNotFound]
        ELSE IF findChild(m.h, parent, name) # NULL THEN [h |-> m.h, err |-> Nil]
        ELSE [h |-> Append([m.h EXCEPT ![parent].Children = Append(@, Len(m.h) + 1)],
                           NewFile(name,
                                   IF HasDotPrefix(name) THEN FileTypeHidden
                                                         ELSE FileTypeRegular,
                                   parent)),
              err |-> Nil]
      In(dir, name, m) ==
        IF m.err # Nil THEN m ELSE Create(m, getNode(m.h, fs, dir), name)
      At(p) == In(Dir(p), Base(p), Mkdir(h, fs, Dir(p)))
  IN At(resolvePath(fs, path))

WriteFile(h, fs, path, content) ==
  LET Write(t, node) ==
        IF node = NULL THEN [h |-> t.h, err |-> ErrNotFound]
        ELSE [h |-> [t.h EXCEPT ![node].Content = content,
                                ![node].Size = Len(content)],
              err |-> Nil]
      Touched(t) ==
        IF t.err # Nil THEN t ELSE Write(t, getNode(t.h, fs, resolvePath(fs, path)))
  IN Touched(Touch(h, fs, path))

ReadFile(h, fs, path) ==
  LET Read(node) ==
        IF node = NULL THEN [content |-> <<>>, err |-> ErrNotFound]
        ELSE IF h[node].Type = FileTypeDirectory
          THEN [content |-> <<>>, err |-> ErrIsADirectory]
        ELSE [content |-> h[node].Content, err |-> Nil]
  IN Read(getNode(h, fs, resolvePath(fs, path)))

Cd(h, fs, path) ==
  LET Enter(resolved, node) ==
        IF node = NULL THEN [fs |-> fs, err |-> ErrNotFound]
        ELSE IF h[node].Type # FileTypeDirectory /\ h[node].Type # FileTypeHidden
          THEN [fs |-> fs, err |-> ErrNotADirectory]
        ELSE [fs |-> [fs EXCEPT !.Cwd = node, !.CwdPath = resolved], err |-> Nil]
      To(resolved) == Enter(resolved, getNode(h, fs, resolved))
  IN To(resolvePath(fs, IF path = EmptyStr \/ path = <<"~">> THEN fs.Home
                        ELSE IF HasTildeSlashPrefix(path) THEN fs.Home \o Tail(path)
                        ELSE path))

Pwd(fs) == fs.CwdPath

Rm(h, fs, path) ==
  LET Remove(node) ==
        IF node = NULL THEN [h |-> h, err |-> ErrNotFound]
        ELSE IF h[node].Type = FileTypeDirectory
          THEN [h |-> h, err |-> ErrIsADirectoryRm]
        ELSE IF h[node].Parent = NULL THEN [h |-> h, err |-> ErrRemoveRoot]
        ELSE [h |-> [h EXCEPT ![h[node].Parent].Children = RemoveFirst(@, node)],
              err |-> Nil]
  IN Remove(getNode(h, fs, resolvePath(fs, path)))

Cp(h, fs, src, dst) ==
  LET Copy(srcNode) ==
        IF srcNode = NULL THEN [h |-> h, err |-> ErrNotFound]
        ELSE IF h[srcNode].Type = FileTypeDirectory
          THEN [h |-> h, err |-> ErrIsADirectoryCp]
        ELSE WriteFile(h, fs, dst, h[srcNode].Content)
  IN Copy(getNode(h, fs, resolvePath(fs, src)))

Mv(h, fs, src, dst) ==
  LET Attach(srcNode, dstName, m, newParent) ==
        IF newParent = NULL THEN [h |-> m.h, err |-> ErrNotFound]
        ELSE [h |-> [m.h EXCEPT ![srcNode].Name = dstName,
                                ![srcNode].Parent = newParent,
                                ![newParent].Children = Append(@, srcNode)],
              err |-> Nil]
      Made(srcNode, dstDir, dstName, m) ==
        IF m.err # Nil THEN m
        ELSE Attach(srcNode, dstName, m, getNode(m.h, fs, dstDir))
      Detached(srcNode, dstResolved, h1) ==
        Made(srcNode, Dir(dstResolved), Base(dstResolved),
             Mkdir(h1, fs, Dir(dstResolved)))
      Into(srcNode, dst0, dstNode) ==
        Detached(srcNode,
                 IF dstNode # NULL /\ h[dstNode].Type = FileTypeDirectory
                   THEN Join(dst0, NameSplit(h[srcNode].Name))
                   ELSE dst0,
                 IF h[srcNode].Parent # NULL
                   THEN [h EXCEPT ![h[srcNode].Parent].Children =
                                     RemoveFirst(@, srcNode)]
                   ELSE h)
      To(srcNode, dst0) == Into(srcNode, dst0, getNode(h, fs, dst0))
      From(srcNode) ==
        IF srcNode = NULL THEN [h |-> h, err |-> ErrNotFound]
        ELSE To(srcNode, resolvePath(fs, dst))
  IN From(getNode(h, fs, resolvePath(fs, src)))

Exists(h, fs, path) == getNode(h, fs, resolvePath(fs, path)) # NULL

IsDir(h, fs, path) ==
  LET Is(node) ==
        IF node = NULL THEN FALSE
        ELSE h[node].Type = FileTypeDirectory \/ h[node].Type = FileTypeHidden
  IN Is(getNode(h, fs, resolvePath(fs, path)))

\* Byte order of the names that occur, for sort.Strings: "." < "/" < letters.
NameOrder ==
  <<".bashrc", ".d", "/", "documents", "downloads", "etc", "home", "learner",
    "log", "passwd", "projects", "q", "readme.txt", "tmp", "var", "workspace",
    "x", "y">>

NameRank(name) == CHOOSE i \in 1..Len(NameOrder) : NameOrder[i] = name

\* A listed entry is [name, dir]: the string name, or name + "/" when dir.
\* No name is a prefix of another, so the suffix only orders equal names.
EntryLess(a, b) ==
  \/ NameRank(a.name) < NameRank(b.name)
  \/ a.name = b.name /\ ~a.dir /\ b.dir

RECURSIVE InsertSorted(_, _)
InsertSorted(sorted, e) ==
  IF sorted = <<>> THEN <<e>>
  ELSE IF EntryLess(e, Head(sorted)) THEN <<e>> \o sorted
  ELSE <<Head(sorted)>> \o InsertSorted(Tail(sorted), e)

RECURSIVE SortStrings(_)
SortStrings(names) ==
  IF names = <<>> THEN <<>>
  ELSE InsertSorted(SortStrings(Tail(names)), Head(names))

RECURSIVE LsCollect(_, _, _)
LsCollect(h, kids, showHidden) ==
  LET Entry(child) == [name |-> child.Name, dir |-> child.Type = FileTypeDirectory] IN
  IF kids = <<>> THEN <<>>
  ELSE IF ~HasDotPrefix(h[Head(kids)].Name) \/ showHidden
    THEN <<Entry(h[Head(kids)])>> \o LsCollect(h, Tail(kids), showHidden)
  ELSE LsCollect(h, Tail(kids), showHidden)

Ls(h, fs, path, showHidden) ==
  LET List(node) ==
        IF node = NULL THEN [names |-> <<>>, err |-> ErrNotFound]
        ELSE IF h[node].Type # FileTypeDirectory /\ h[node].Type # FileTypeHidden
          THEN [names |-> <<[name |-> h[node].Name, dir |-> FALSE]>>, err |-> Nil]
        ELSE [names |-> SortStrings(LsCollect(h, h[node].Children, showHidden)),
              err |-> Nil]
  IN List(getNode(h, fs, resolvePath(fs, IF path = EmptyStr THEN fs.CwdPath
                                         ELSE path)))

\* strings.Split(content, "\n") on a sequence of text pieces.
RECURSIVE SplitLines(_, _)
SplitLines(content, cur) ==
  IF content = <<>> THEN <<cur>>
  ELSE IF Head(content) = "\n" THEN <<cur>> \o SplitLines(Tail(content), <<>>)
  ELSE SplitLines(Tail(content), Append(cur, Head(content)))

\* strings.Contains at the granularity of text pieces.
Contains(s, sub) ==
  \E i \in 0..(Len(s) - Len(sub)) : SubSeq(s, i + 1, i + Len(sub)) = sub

Grep(h, fs, pattern, path) ==
  LET Matches(r) ==
        IF r.err # Nil THEN [matches |-> <<>>, err |-> r.err]
        ELSE [matches |-> SelectSeq(SplitLines(r.content, <<>>),
                                    LAMBDA line : Contains(line, pattern)),
              err |-> Nil]
  IN Matches(ReadFile(h, fs, path))

\* filepath.Match for the patterns that occur: "*" and literal names.
Match(pattern, name) ==
  IF pattern = <<"*">> THEN name # "/" ELSE pattern = <<name>>

\* findRecursive; above is the set of Files whose calls are still active.
\* A call on a File that is in above repeats an active call, so the recursion
\* never returns: ok = FALSE.
RECURSIVE findRecursive(_, _, _, _, _)
RECURSIVE findChildren(_, _, _, _, _)
findRecursive(h, node, currentPath, pattern, above) ==
  LET Below(own, sub) == [results |-> own \o sub.results, ok |-> sub.ok]
      Visited(own) ==
        IF h[node].Type = FileTypeDirectory \/ h[node].Type = FileTypeHidden
          THEN Below(own, findChildren(h, h[node].Children, currentPath, pattern,
                                       above \cup {node}))
          ELSE [results |-> own, ok |-> TRUE]
  IN IF node \in above THEN [results |-> <<>>, ok |-> FALSE]
     ELSE Visited(IF Match(pattern, h[node].Name) THEN <<currentPath>> ELSE <<>>)

findChildren(h, kids, currentPath, pattern, above) ==
  LET Both(first, rest) ==
        [results |-> first.results \o rest.results, ok |-> rest.ok]
      After(first) ==
        IF ~first.ok THEN [results |-> <<>>, ok |-> FALSE]
        ELSE Both(first, findChildren(h, Tail(kids), currentPath, pattern, above))
  IN IF kids = <<>> THEN [results |-> <<>>, ok |-> TRUE]
     ELSE After(findRecursive(h, Head(kids),
                              Join(currentPath, NameSplit(h[Head(kids)].Name)),
                              pattern, above))

Find(h, fs, startPath, pattern) ==
  LET Found(r) == [results |-> r.results, err |-> Nil, ok |-> r.ok]
      From(resolved, start) ==
        IF start = NULL THEN [results |-> <<>>, err |-> ErrNotFound, ok |-> TRUE]
        ELSE Found(findRecursive(h, start, resolved, pattern, {}))
      At(resolved) == From(resolved, getNode(h, fs, resolved))
  IN At(resolvePath(fs, startPath))

\* A clone that copies the File and keeps the original's Children.
cloneFileShallow(h, f, parent, above) ==
  IF f = NULL THEN [h |-> h, id |-> NULL, ok |-> TRUE]
  ELSE [h |-> Append(h, [h[f] EXCEPT !.Parent = parent]), id |-> Len(h) + 1,
        ok |-> TRUE]

\* cloneFile; ok = FALSE when the recursion never returns (see findRecursive).
RECURSIVE cloneFile(_, _, _, _)
RECURSIVE cloneChildren(_, _, _, _)
cloneFile(h, f, parent, above) ==
  LET clone == [Name |-> h[f].Name, Type |-> h[f].Type, Content |-> h[f].Content,
                Children |-> <<>>, Parent |-> parent, Size |-> h[f].Size]
  IN IF f = NULL THEN [h |-> h, id |-> NULL, ok |-> TRUE]
     ELSE IF f \in above THEN [h |-> h, id |-> NULL, ok |-> FALSE]
     ELSE cloneChildren(Append(h, clone), h[f].Children, Len(h) + 1, above \cup {f})

cloneChildren(h, kids, id, above) ==
  LET Appended(c) ==
        IF ~c.ok THEN [h |-> h, id |-> id, ok |-> FALSE]
        ELSE cloneChildren([c.h EXCEPT ![id].Children = Append(@, c.id)],
                           Tail(kids), id, above)
  IN IF kids = <<>> THEN [h |-> h, id |-> id, ok |-> TRUE]
     ELSE Appended(cloneFile(h, Head(kids), id, above))

Clone(h, fs) ==
  LET newFs(c) == [Root |-> c.id, Cwd |-> c.id, CwdPath |-> Slash,
                   Home |-> fs.Home, User |-> fs.User]
      Cloned(c) ==
        IF ~c.ok THEN [h |-> h, fs |-> fs, ok |-> FALSE]
        ELSE [h |-> c.h, fs |-> Cd(c.h, newFs(c), fs.CwdPath).fs, ok |-> TRUE]
  IN Cloned(cloneFile(h, fs.Root, NULL, {}))

\* ------------------------------------------------------------- goal DSL
\* A GoalNode is a record tagged by op; NoGoal is a nil Mission.Goal.
NoGoal == [op |-> "nil"]
AlwaysGoal == [op |-> "always"]
PwdEqualsGoal(p) == [op |-> "pwd_equals", Path |-> p]
PathExistsGoal(p) == [op |-> "path_exists", Path |-> p]
PathNotExistsGoal(p) == [op |-> "path_not_exists", Path |-> p]
IsDirGoal(p) == [op |-> "is_dir", Path |-> p]
IsFileGoal(p) == [op |-> "is_file", Path |-> p]
FileContainsGoal(p, c) == [op |-> "file_contains", Path |-> p, Content |-> c]
AndGoal(cs) == [op |-> "and", Conditions |-> cs]
OrGoal(cs) == [op |-> "or", Conditions |-> cs]
NotGoal(c) == [op |-> "not", Condition |-> c]

\* An evaluator whose "or" asks for every condition.
RECURSIVE EvaluateOrAsAnd(_, _, _)
EvaluateOrAsAnd(h, fs, g) ==
  LET Has(r) == IF r.err # Nil THEN FALSE ELSE Contains(r.content, g.Content) IN
  CASE g.op = "always" -> TRUE
    [] g.op = "pwd_equals" -> Pwd(fs) = g.Path
    [] g.op = "path_exists" -> Exists(h, fs, g.Path)
    [] g.op = "path_not_exists" -> ~Exists(h, fs, g.Path)
    [] g.op = "is_dir" -> IsDir(h, fs, g.Path)
    [] g.op = "is_file" -> Exists(h, fs, g.Path) /\ ~IsDir(h, fs, g.Path)
    [] g.op = "file_contains" -> Has(ReadFile(h, fs, g.Path))
    [] g.op \in {"and", "or"} ->
         \A i \in 1..Len(g.Conditions) : EvaluateOrAsAnd(h, fs, g.Conditions[i])
    [] g.op = "not" -> ~EvaluateOrAsAnd(h, fs, g.Condition)

RECURSIVE Evaluate(_, _, _)
Evaluate(h, fs, g) ==
  LET Has(r) == IF r.err # Nil THEN FALSE ELSE Contains(r.content, g.Content) IN
  CASE g.op = "always" -> TRUE
    [] g.op = "pwd_equals" -> Pwd(fs) = g.Path
    [] g.op = "path_exists" -> Exists(h, fs, g.Path)
    [] g.op = "path_not_exists" -> ~Exists(h, fs, g.Path)
    [] g.op = "is_dir" -> IsDir(h, fs, g.Path)
    [] g.op = "is_file" -> Exists(h, fs, g.Path) /\ ~IsDir(h, fs, g.Path)
    [] g.op = "file_contains" -> Has(ReadFile(h, fs, g.Path))
    [] g.op = "and" -> \A i \in 1..Len(g.Conditions) : Evaluate(h, fs, g.Conditions[i])
    [] g.op = "or" -> \E i \in 1..Len(g.Conditions) : Evaluate(h, fs, g.Conditions[i])
    [] g.op = "not" -> ~Evaluate(h, fs, g.Condition)

\* --------------------------------------------------------- goal parser
\* A deserialized value (Go's any) is a record of its dynamic type t, named
\* as %T prints it, and its value v.  A map[string]any is a sequence of
\* entries with distinct keys; the order of the sequence carries no meaning.
StringType == "string"
IntType == "int"
BoolType == "bool"
MapType == "map[string]interface {}"
ListType == "[]interface {}"
NilType == "<nil>"
NilValue == [t |-> NilType, v |-> 0]

\* m[key] on a map[string]any: the nil interface when the key is missing.
MapIndex(m, key) ==
  IF \E i \in 1..Len(m) : m[i].key = key
    THEN m[CHOOSE i \in 1..Len(m) : m[i].key = key].value
    ELSE NilValue

\* The (GoalNode, error) pairs of the parser; at is the chain of prefixes
\* that wrap the error, outermost first.
Parsed(node) == [node |-> node, err |-> Nil, at |-> <<>>]
ParseError(err) == [node |-> NoGoal, err |-> err, at |-> <<>>]
Wrap(prefix, r) == [node |-> NoGoal, err |-> r.err, at |-> <<prefix>> \o r.at]

parseStringGoal(key, value) ==
  IF value.t # StringType THEN ParseError("expects string")
  ELSE Parsed([op |-> key, Path |-> value.v])

parseFileContains(value) ==
  IF value.t # MapType THEN ParseError("file_contains expects map with path and content")
  ELSE IF MapIndex(value.v, "path").t # StringType
    THEN ParseError("file_contains.path expects string")
  ELSE IF MapIndex(value.v, "content").t # StringType
    THEN ParseError("file_contains.content expects string")
  ELSE Parsed(FileContainsGoal(MapIndex(value.v, "path").v,
                               MapIndex(value.v, "content").v))

\* ParseGoal and its helpers give the set of pairs the call can return: the
\* range over a map visits the keys in an order that is not determined, and
\* the first key visited decides the result.
RECURSIVE ParseGoal(_)
RECURSIVE parseGoalKey(_, _)
RECURSIVE parseConditions(_, _, _, _)
RECURSIVE parseNot(_)

\* The loop of parseAnd and parseOr over the items from index i on.
parseConditions(name, items, i, conditions) ==
  IF i > Len(items) THEN {Parsed([op |-> name, Conditions |-> conditions])}
  ELSE IF items[i].t # MapType THEN {ParseError("item expects map")}
  ELSE UNION { IF r.err # Nil THEN {Wrap(name, r)}
               ELSE parseConditions(name, items, i + 1, Append(conditions, r.node))
               : r \in ParseGoal(items[i].v) }

parseAnd(value) ==
  IF value.t # ListType THEN {ParseError("and expects array")}
  ELSE parseConditions("and", value.v, 1, <<>>)

parseOr(value) ==
  IF value.t # ListType THEN {ParseError("or expects array")}
  ELSE parseConditions("or", value.v, 1, <<>>)

parseNot(value) ==
  IF value.t # MapType THEN {ParseError("not expects map")}
  ELSE { IF r.err # Nil THEN Wrap("not", r) ELSE Parsed(NotGoal(r.node))
         : r \in ParseGoal(value.v) }

parseGoalKey(key, value) ==
  CASE key = "always" -> {Parsed(AlwaysGoal)}
    [] key \in {"pwd_equals", "path_exists", "path_not_exists", "is_dir", "is_file"} ->
         {parseStringGoal(key, value)}
    [] key = "file_contains" -> {parseFileContains(value)}
    [] key = "and" -> parseAnd(value)
    [] key = "or" -> parseOr(value)
    [] key = "not" -> parseNot(value)
    [] OTHER -> {ParseError("unknown goal operation")}

ParseGoal(raw) ==
  IF Len(raw) = 0 THEN {Parsed(AlwaysGoal)}
  ELSE UNION { parseGoalKey(raw[i].key, raw[i].value) : i \in 1..Len(raw) }

\* ------------------------------------------------------- text of tokens
\* A token of the input line is kept in split form; TokText is its text.
RECURSIVE TokText(_)
TokText(tok) ==
  IF tok = <<>> THEN <<>>
  ELSE IF Len(tok) = 1 THEN (IF tok[1] = "" THEN <<>> ELSE <<tok[1]>>)
  ELSE (IF tok[1] = "" THEN <<"/">> ELSE <<tok[1], "/">>) \o TokText(Tail(tok))

\* strings.Join(items, sep) for items that are sequences of text pieces.
RECURSIVE JoinText(_, _)
JoinText(items, sep) ==
  IF items = <<>> THEN <<>>
  ELSE IF Len(items) = 1 THEN items[1]
  ELSE items[1] \o <<sep>> \o JoinText(Tail(items), sep)

MapSeq(s, Op(_)) == [i \in 1..Len(s) |-> Op(s[i])]

EntryText(e) == IF e.dir THEN <<e.name, "/">> ELSE <<e.name>>

\* strings.HasPrefix(arg, "-") and strings.HasPrefix(arg, ">") for a token.
HasDashPrefix(tok) ==
  tok[1] \in {"-a", "-la", "-al", "-l", "-r", "-name", "-s", "-v", "-n", "-p",
              "-L", "-R", "-U", "-D"}

HasGtPrefix(tok) == tok[1] \in {">", ">>"}

\* strings.TrimPrefix(arg, ">")
TrimGtPrefix(tok) == IF tok = <<">>">> THEN <<">">> ELSE EmptyStr

\* strings.TrimSpace / strings.Fields: whitespace is the token <<" ">>.
Fields(input) == SelectSeq(input, LAMBDA tok : tok # <<" ">>)

\* --------------------------------------------------------- MissionRunner
\* A failed result that carries no error text.
FailSilent(err) ==
  [Output |-> <<>>, Success |-> FALSE, Error |-> "", Completed |-> FALSE]

\* A result that reports an error and still counts as a success.
FailAsSuccess(err) ==
  [Output |-> <<>>, Success |-> TRUE, Error |-> err, Completed |-> FALSE]

Ok(out) == [Output |-> out, Success |-> TRUE, Error |-> "", Completed |-> FALSE]
Fail(err) == [Output |-> <<>>, Success |-> FALSE, Error |-> err, Completed |-> FALSE]

\* A zero TmuxState that is marked detached.
NoTmuxDetached ==
  [InSession |-> FALSE, SessionName |-> EmptyStr, Panes |-> 0, Windows |-> 0,
   CurrentPane |-> 0, CurrentWindow |-> 0, Detached |-> TRUE]

NoTmux ==
  [InSession |-> FALSE, SessionName |-> EmptyStr, Panes |-> 0, Windows |-> 0,
   CurrentPane |-> 0, CurrentWindow |-> 0, Detached |-> FALSE]

\* The loops of mkdir, touch, rm and cat over their operands.
RECURSIVE MkdirAll(_, _, _)
MkdirAll(h, fs, args) ==
  LET Rest(m) == IF m.err # Nil THEN m ELSE MkdirAll(m.h, fs, Tail(args)) IN
  IF args = <<>> THEN [h |-> h, err |-> Nil]
  ELSE IF HasDashPrefix(Head(args)) THEN MkdirAll(h, fs, Tail(args))
  ELSE Rest(Mkdir(h, fs, Head(args)))

RECURSIVE TouchAll(_, _, _)
TouchAll(h, fs, args) ==
  LET Rest(t) == IF t.err # Nil THEN t ELSE TouchAll(t.h, fs, Tail(args)) IN
  IF args = <<>> THEN [h |-> h, err |-> Nil]
  ELSE Rest(Touch(h, fs, Head(args)))

RECURSIVE RmAll(_, _, _)
RmAll(h, fs, args) ==
  LET Rest(r) == IF r.err # Nil THEN r ELSE RmAll(r.h, fs, Tail(args)) IN
  IF args = <<>> THEN [h |-> h, err |-> Nil]
  ELSE IF HasDashPrefix(Head(args)) THEN RmAll(h, fs, Tail(args))
  ELSE Rest(Rm(h, fs, Head(args)))

RECURSIVE CatAll(_, _, _, _)
CatAll(h, fs, args, contents) ==
  LET Rest(r) ==
        IF r.err # Nil THEN [contents |-> contents, err |-> r.err]
        ELSE CatAll(h, fs, Tail(args), Append(contents, r.content))
  IN IF args = <<>> THEN [contents |-> contents, err |-> Nil]
     ELSE Rest(ReadFile(h, fs, Head(args)))

\* The argument scans of ls, find and echo.
RECURSIVE LsArgs(_, _)
LsArgs(args, acc) ==
  IF args = <<>> THEN acc
  ELSE LET arg == Head(args) IN
    IF arg = <<"-a">> \/ arg = <<"-la">> \/ arg = <<"-al">>
      THEN LsArgs(Tail(args), [acc EXCEPT !.showHidden = TRUE])
    ELSE IF ~HasDashPrefix(arg) THEN LsArgs(Tail(args), [acc EXCEPT !.path = arg])
    ELSE LsArgs(Tail(args), acc)

RECURSIVE FindPattern(_, _, _)
FindPattern(args, i, pattern) ==
  IF i > Len(args) THEN pattern
  ELSE IF args[i] = <<"-name">> /\ i + 1 <= Len(args)
    THEN FindPattern(args, i + 1, args[i + 1])
  ELSE FindPattern(args, i + 1, pattern)

RECURSIVE EchoArgs(_, _, _)
EchoArgs(args, i, acc) ==
  IF i > Len(args) THEN acc
  ELSE IF args[i] = <<">">> /\ i + 1 <= Len(args)
    THEN EchoArgs(args, i + 2, [acc EXCEPT !.outputFile = args[i + 1]])
  ELSE IF args[i] = <<">>">> /\ i + 1 <= Len(args)
    THEN EchoArgs(args, i + 2, [acc EXCEPT !.outputFile = args[i + 1],
                                           !.appendMode = TRUE])
  ELSE IF HasGtPrefix(args[i])
    THEN EchoArgs(args, i + 1, [acc EXCEPT !.outputFile = TrimGtPrefix(args[i])])
  ELSE EchoArgs(args, i + 1, [acc EXCEPT !.echoArgs = Append(@, args[i])])

RECURSIVE SessionNameArg(_, _, _)
SessionNameArg(subArgs, i, name) ==
  IF i > Len(subArgs) THEN name
  ELSE IF subArgs[i] = <<"-s">> /\ i + 1 <= Len(subArgs)
    THEN SessionNameArg(subArgs, i + 1, subArgs[i + 1])
  ELSE SessionNameArg(subArgs, i + 1, name)

RECURSIVE PaneDirection(_, _)
PaneDirection(subArgs, direction) ==
  IF subArgs = <<>> THEN direction
  ELSE PaneDirection(Tail(subArgs),
         CASE Head(subArgs) = <<"-L">> -> "left"
           [] Head(subArgs) = <<"-R">> -> "right"
           [] Head(subArgs) = <<"-U">> -> "up"
           [] Head(subArgs) = <<"-D">> -> "down"
           [] OTHER -> direction)

\* select-window whose -p moves forward like -n.
RECURSIVE SelectWindowForward(_, _)
SelectWindowForward(t, subArgs) ==
  IF subArgs = <<>> THEN t
  ELSE SelectWindowForward(
         IF Head(subArgs) \in {<<"-n">>, <<"-p">>}
           THEN [t EXCEPT !.CurrentWindow = (t.CurrentWindow + 1) % t.Windows]
           ELSE t,
         Tail(subArgs))

RECURSIVE SelectWindow(_, _)
SelectWindow(t, subArgs) ==
  IF subArgs = <<>> THEN t
  ELSE SelectWindow(
         CASE Head(subArgs) = <<"-n">> ->
                [t EXCEPT !.CurrentWindow = (t.CurrentWindow + 1) % t.Windows]
           [] Head(subArgs) = <<"-p">> ->
                [t EXCEPT !.CurrentWindow = (t.CurrentWindow - 1 + t.Windows) % t.Windows]
           [] OTHER -> t,
         Tail(subArgs))

\* A new session without a name.
NewSessionNoName(name) ==
  [InSession |-> TRUE, SessionName |-> EmptyStr, Panes |-> 1, Windows |-> 1,
   CurrentPane |-> 0, CurrentWindow |-> 0, Detached |-> FALSE]

\* A new session that is left detached.
NewSessionDetached(name) ==
  [InSession |-> TRUE, SessionName |-> name, Panes |-> 1, Windows |-> 1,
   CurrentPane |-> 0, CurrentWindow |-> 0, Detached |-> TRUE]

NewSession(name) ==
  [InSession |-> TRUE, SessionName |-> name, Panes |-> 1, Windows |-> 1,
   CurrentPane |-> 0, CurrentWindow |-> 0, Detached |-> FALSE]

ErrNested == "sessions should be nested with care, unset $TMUX to force"

executeTmux(t, args) ==
  IF Len(args) = 0 THEN
    IF t.InSession THEN [tmux |-> t, result |-> Fail(ErrNested)]
    ELSE [tmux |-> NewSession(<<"0">>),
          result |-> Ok(<<"[new session ", "0", " created]">>)]
  ELSE
    LET subCmd == args[1]
        subArgs == Tail(args)
        notAttached == ~t.InSession \/ t.Detached
    IN
    CASE subCmd \in {<<"new">>, <<"new-session">>} ->
           IF t.InSession /\ ~t.Detached THEN [tmux |-> t, result |-> Fail(ErrNested)]
           ELSE LET sessionName == SessionNameArg(subArgs, 1, <<"0">>) IN
                [tmux |-> NewSession(sessionName),
                 result |-> Ok(<<"[new session ">> \o TokText(sessionName)
                               \o <<" created]">>)]
      [] subCmd \in {<<"attach">>, <<"attach-session">>, <<"a">>} ->
           IF t.InSession /\ ~t.Detached
             THEN [tmux |-> t, result |-> Fail("sessions should be nested with care")]
           ELSE IF ~t.Detached /\ t.SessionName = EmptyStr
             THEN [tmux |-> t, result |-> Fail("no sessions")]
           ELSE [tmux |-> [t EXCEPT !.Detached = FALSE, !.InSession = TRUE],
                 result |-> Ok(<<"[attached to session ">> \o TokText(t.SessionName)
                               \o <<"]">>)]
      [] subCmd \in {<<"detach">>, <<"detach-client">>, <<"d">>} ->
           IF notAttached THEN [tmux |-> t, result |-> Fail("no current client")]
           ELSE [tmux |-> [t EXCEPT !.Detached = TRUE],
                 result |-> Ok(<<"[detached (from session ">> \o TokText(t.SessionName)
                               \o <<")]">>)]
      [] subCmd \in {<<"ls">>, <<"list-sessions">>} ->
           IF t.SessionName = EmptyStr
             THEN [tmux |-> t, result |-> Ok(<<"no server running">>)]
           ELSE [tmux |-> t,
                 result |-> Ok(TokText(t.SessionName)
                               \o <<": ", ToString(t.Windows), " windows">>
                               \o (IF t.InSession /\ ~t.Detached
                                     THEN <<" (attached)">> ELSE <<>>))]
      [] subCmd \in {<<"split-window">>, <<"split">>} ->
           IF notAttached THEN [tmux |-> t, result |-> Fail("no current session")]
           ELSE [tmux |-> [t EXCEPT !.Panes = @ + 1],
                 result |-> Ok(<<"[split ",
                                 IF <<"-v">> \in Range(subArgs) THEN "vertically"
                                                                ELSE "horizontally",
                                 ", now ", ToString(t.Panes + 1), " panes]">>)]
      [] subCmd = <<"select-pane">> ->
           IF notAttached THEN [tmux |-> t, result |-> Fail("no current session")]
           ELSE LET pane == (t.CurrentPane + 1) % t.Panes IN
                [tmux |-> [t EXCEPT !.CurrentPane = pane],
                 result |-> Ok(<<"[moved ", PaneDirection(subArgs, "next"),
                                 " to pane ", ToString(pane), "]">>)]
      [] subCmd = <<"new-window">> ->
           IF notAttached THEN [tmux |-> t, result |-> Fail("no current session")]
           ELSE [tmux |-> [t EXCEPT !.Windows = @ + 1, !.CurrentWindow = t.Windows],
                 result |-> Ok(<<"[new window ", ToString(t.Windows), " created]">>)]
      [] subCmd = <<"select-window">> ->
           IF notAttached THEN [tmux |-> t, result |-> Fail("no current session")]
           ELSE LET t2 == SelectWindow(t, subArgs) IN
                [tmux |-> t2,
                 result |-> Ok(<<"[switched to window ", ToString(t2.CurrentWindow),
                                 "]">>)]
      [] subCmd = <<"kill-session">> ->
           IF t.SessionName = EmptyStr THEN [tmux |-> t, result |-> Fail("no sessions")]
           ELSE [tmux |-> NoTmux,
                 result |-> Ok(<<"[killed session ">> \o TokText(t.SessionName)
                               \o <<"]">>)]
      [] OTHER -> [tmux |-> t, result |-> Fail("tmux: unknown command")]

\* executeCommand on the runner's heap, live Filesystem and Tmux state;
\* ok = FALSE when the call never returns.
executeCommand(h, fs, t, cmd, args) ==
  LET Same(result) == [h |-> h, fs |-> fs, tmux |-> t, result |-> result, ok |-> TRUE]
      Put(r) == [h |-> r.h, fs |-> fs, tmux |-> t,
                 result |-> IF r.err # Nil THEN Fail(r.err) ELSE Ok(<<>>), ok |-> TRUE]
      Listed(r) == IF r.err # Nil THEN Same(Fail(r.err))
                   ELSE Same(Ok(JoinText(MapSeq(r.names, EntryText), "  ")))
      LsWith(a) == Listed(Ls(h, fs, a.path, a.showHidden))
      Moved(r) == IF r.err # Nil THEN Same(Fail(r.err))
                  ELSE [h |-> h, fs |-> r.fs, tmux |-> t, result |-> Ok(<<>>),
                        ok |-> TRUE]
      Shown(r) == IF r.err # Nil THEN Same(Fail(r.err))
                  ELSE Same(Ok(JoinText(r.contents, "\n")))
      Grepped(r) == IF r.err # Nil THEN Same(Fail(r.err))
                    ELSE Same(Ok(JoinText(r.matches, "\n")))
      Found(r) == IF ~r.ok THEN [h |-> h, fs |-> fs, tmux |-> t,
                                 result |-> Fail("stack overflow"), ok |-> FALSE]
                  ELSE IF r.err # Nil THEN Same(Fail(r.err))
                  ELSE Same(Ok(JoinText(MapSeq(r.results, TokText), "\n")))
      FindWith(pattern) ==
        IF pattern = EmptyStr THEN Same(Fail("find: missing -name pattern"))
        ELSE Found(Find(h, fs, args[1], pattern))
      Written(a, output) ==
        IF a.outputFile # EmptyStr
          THEN Put(WriteFile(h, fs, a.outputFile,
                             IF a.appendMode
                               THEN ReadFile(h, fs, a.outputFile).content
                                    \o output \o <<"\n">>
                               ELSE output \o <<"\n">>))
          ELSE Same(Ok(output))
      EchoWith(a) == Written(a, JoinText(MapSeq(a.echoArgs, TokText), " "))
      Tmuxed(r) == [h |-> h, fs |-> fs, tmux |-> r.tmux, result |-> r.result,
                    ok |-> TRUE]
  IN
  CASE cmd = <<"pwd">> -> Same(Ok(TokText(Pwd(fs))))
    [] cmd = <<"ls">> ->
         LsWith(LsArgs(args, [path |-> EmptyStr, showHidden |-> FALSE]))
    [] cmd = <<"cd">> ->
         Moved(Cd(h, fs, IF Len(args) > 0 THEN args[1] ELSE EmptyStr))
    [] cmd = <<"mkdir">> ->
         IF Len(args) = 0 THEN Same(Fail("mkdir: missing operand"))
         ELSE Put(MkdirAll(h, fs, args))
    [] cmd = <<"touch">> ->
         IF Len(args) = 0 THEN Same(Fail("touch: missing file operand"))
         ELSE Put(TouchAll(h, fs, args))
    [] cmd = <<"cat">> ->
         IF Len(args) = 0 THEN Same(Fail("cat: missing file operand"))
         ELSE Shown(CatAll(h, fs, args, <<>>))
    [] cmd = <<"cp">> ->
         IF Len(args) < 2 THEN Same(Fail("cp: missing destination file operand"))
         ELSE Put(Cp(h, fs, args[Len(args) - 1], args[Len(args)]))
    [] cmd = <<"mv">> ->
         IF Len(args) < 2 THEN Same(Fail("mv: missing destination file operand"))
         ELSE Put(Mv(h, fs, args[Len(args) - 1], args[Len(args)]))
    [] cmd = <<"rm">> ->
         IF Len(args) = 0 THEN Same(Fail("rm: missing operand"))
         ELSE Put(RmAll(h, fs, args))
    [] cmd = <<"grep">> ->
         IF Len(args) < 2 THEN Same(Fail("grep: missing pattern or file"))
         ELSE Grepped(Grep(h, fs, TokText(args[1]), args[2]))
    [] cmd = <<"find">> ->
         IF Len(args) < 3 THEN Same(Fail("find: missing arguments"))
         ELSE FindWith(FindPattern(args, 1, EmptyStr))
    [] cmd = <<"echo">> ->
         EchoWith(EchoArgs(args, 1, [outputFile |-> EmptyStr, appendMode |-> FALSE,
                                     echoArgs |-> <<>>]))
    [] cmd = <<"clear">> -> Same(Ok(<<"ESC[2J", "ESC[H">>))
    [] cmd = <<"help">> -> Same(Ok(<<"Available: pwd, ls, cd, mkdir, touch, cat, cp, mv, rm, echo, grep, find, clear, tmux">>))
    [] cmd = <<"tmux">> -> Tmuxed(executeTmux(t, args))
    [] OTHER -> Same(Fail("command not found"))

\* A goal check that runs only after a command that succeeded.
CheckGoalOnSuccess(completed, result, goal) ==
  IF goal /\ result.Success
    THEN [Completed |-> TRUE, result |-> [result EXCEPT !.Completed = TRUE]]
    ELSE [Completed |-> completed, result |-> result]

\* A goal check that stores the goal's value in the runner's flag.
CheckGoalOverwrite(completed, result, goal) ==
  [Completed |-> goal,
   result |-> IF goal THEN [result EXCEPT !.Completed = TRUE] ELSE result]

\* A goal check that marks the result once the runner's flag is set.
CheckGoalSticky(completed, result, goal) ==
  [Completed |-> completed \/ goal,
   result |-> IF completed \/ goal THEN [result EXCEPT !.Completed = TRUE]
                                   ELSE result]

\* The end of Execute: if r.Mission.Goal(ctx) { result.Completed = true;
\* r.Completed = true }.  goal is the value of r.Mission.Goal(ctx), FALSE for
\* a nil Goal.
CheckGoal(completed, result, goal) ==
  IF goal
    THEN [Completed |-> TRUE, result |-> [result EXCEPT !.Completed = TRUE]]
    ELSE [Completed |-> completed, result |-> result]

\* Execute: the whole call, on the runner's fields and its Mission m;
\* ok = FALSE when the call never returns.
Execute(h, fs, m, attempts, completed, history, t, input) ==
  LET Returned(r, checked) ==
        [h |-> r.h, fs |-> r.fs, tmux |-> r.tmux, Attempts |-> attempts + 1,
         History |-> Append(history, input), Completed |-> checked.Completed,
         result |-> checked.result, ok |-> r.ok]
      Ran(r) ==
        Returned(r, CheckGoal(completed, r.result,
                              r.ok /\ m.Goal # NoGoal /\ Evaluate(r.h, r.fs, m.Goal)))
      Run(parts) ==
        IF parts = <<>>
          THEN [h |-> h, fs |-> fs, tmux |-> t, Attempts |-> attempts + 1,
                History |-> Append(history, input), Completed |-> completed,
                result |-> Ok(<<>>), ok |-> TRUE]
          ELSE Ran(executeCommand(h, fs, t, parts[1], Tail(parts)))
  IN Run(Fields(input))

\* ---------------------------------------------------------- construction
NewFilesystem ==
  [h |-> <<NewFile("/", FileTypeDirectory, NULL)>>,
   fs |-> [Root |-> 1, Cwd |-> 1, CwdPath |-> Slash, Home |-> HomePath,
           User |-> "learner"]]

\* One setup action (content.SetupAction / a call in a Setup func); errors
\* are ignored, as in executeSetup.
SetupStep(s, a) ==
  CASE a.op = "mkdir" -> [s EXCEPT !.h = Mkdir(s.h, s.fs, a.path).h]
    [] a.op = "cd" -> [s EXCEPT !.fs = Cd(s.h, s.fs, a.path).fs]
    [] a.op = "touch" -> [s EXCEPT !.h = Touch(s.h, s.fs, a.path).h]
    [] a.op = "writeFile" -> [s EXCEPT !.h = WriteFile(s.h, s.fs, a.path, a.content).h]

RECURSIVE executeSetup(_, _)
executeSetup(s, actions) ==
  IF actions = <<>> THEN s
  ELSE executeSetup(SetupStep(s, Head(actions)), Tail(actions))

BashrcText == <<"# Bash configuration", "\n", "export PATH=$PATH:~/bin", "\n">>
ReadmeText == <<"Welcome to the terminal!", "\n", "This is your home directory.", "\n">>
PasswdText == <<"root:x:0:0:root:/root:/bin/bash", "\n",
                "learner:x:1000:1000::/home/learner:/bin/bash", "\n">>

NewDefaultFilesystem ==
  executeSetup(NewFilesystem,
    << [op |-> "mkdir", path |-> <<"", "home">>],
       [op |-> "mkdir", path |-> <<"", "home", "learner">>],
       [op |-> "mkdir", path |-> <<"", "home", "learner", "projects">>],
       [op |-> "mkdir", path |-> <<"", "home", "learner", "documents">>],
       [op |-> "mkdir", path |-> <<"", "home", "learner", "downloads">>],
       [op |-> "mkdir", path |-> <<"", "tmp">>],
       [op |-> "mkdir", path |-> <<"", "var">>],
       [op |-> "mkdir", path |-> <<"", "var", "log">>],
       [op |-> "mkdir", path |-> <<"", "etc">>],
       [op |-> "touch", path |-> <<"", "home", "learner", ".bashrc">>],
       [op |-> "writeFile", path |-> <<"", "home", "learner", ".bashrc">>,
        content |-> BashrcText],
       [op |-> "touch", path |-> <<"", "home", "learner", "readme.txt">>],
       [op |-> "writeFile", path |-> <<"", "home", "learner", "readme.txt">>,
        content |-> ReadmeText],
       [op |-> "touch", path |-> <<"", "etc", "passwd">>],
       [op |-> "writeFile", path |-> <<"", "etc", "passwd">>, content |-> PasswdText],
       [op |-> "cd", path |-> <<"", "home", "learner">>] >>)

\* The missions the runner is constructed for (missions.go).
WorkspacePath == <<"", "home", "learner", "workspace">>

Missions ==
  { [ID |-> "0.1-where-am-i",
     Setup |-> << [op |-> "cd", path |-> <<"", "home", "learner", "projects">>] >>,
     Goal |-> AlwaysGoal],
    [ID |-> "0.3-go-home",
     Setup |-> << [op |-> "mkdir", path |-> <<"", "tmp">>],
                  [op |-> "cd", path |-> <<"", "tmp">>] >>,
     Goal |-> PwdEqualsGoal(HomePath)],
    [ID |-> "2.1-create-dir",
     Setup |-> << [op |-> "cd", path |-> <<"", "home", "learner">>] >>,
     Goal |-> AndGoal(<<PathExistsGoal(WorkspacePath), IsDirGoal(WorkspacePath)>>)] }

\* The live Filesystem after NewDefaultFilesystem and the mission's Setup.
SetupFilesystem(m) == executeSetup(NewDefaultFilesystem, m.Setup)

\* ------------------------------------------------------ heap addresses
\* Addresses are not observable.  After every call the Files reachable from
\* the runner are renumbered in a fixed traversal order (InitialFS first) and
\* the unreachable ones are dropped, as the garbage collector would.
RECURSIVE Visit(_, _, _)
Visit(h, stack, order) ==
  IF stack = <<>> THEN order
  ELSE IF Head(stack) = NULL \/ Head(stack) \in Range(order)
    THEN Visit(h, Tail(stack), order)
  ELSE Visit(h, h[Head(stack)].Children \o <<h[Head(stack)].Parent>> \o Tail(stack),
             Append(order, Head(stack)))

Collect(h, ifs, fs) ==
  LET At(pos, n) == IF n = NULL THEN NULL ELSE pos[n]
      Move(pos, f) ==
        [Name |-> f.Name, Type |-> f.Type, Content |-> f.Content,
         Children |-> [j \in 1..Len(f.Children) |-> pos[f.Children[j]]],
         Parent |-> At(pos, f.Parent), Size |-> f.Size]
      Moved(order, pos) ==
        [h |-> [i \in 1..Len(order) |-> Move(pos, h[order[i]])],
         ifs |-> [ifs EXCEPT !.Root = At(pos, @), !.Cwd = At(pos, @)],
         fs |-> [fs EXCEPT !.Root = At(pos, @), !.Cwd = At(pos, @)]]
      Ordered(order) ==
        Moved(order, [n \in Range(order) |->
                        CHOOSE i \in 1..Len(order) : order[i] = n])
  IN Ordered(Visit(h, <<ifs.Root, ifs.Cwd, fs.Root, fs.Cwd>>, <<>>))

NewMissionRunner(m) ==
  LET Cloned(s, c) == Collect(c.h, c.fs, s.fs)
      Made(s) == Cloned(s, Clone(s.h, s.fs))
  IN Made(SetupFilesystem(m))

\* ---------------------------------------------------------- observation
\* What Exists, IsDir, ReadFile, Ls and Find can tell about a Filesystem:
\* the tree of names, types and contents below the root, and Pwd.
RECURSIVE TreeOf(_, _, _)
TreeOf(h, n, above) ==
  IF n \in above THEN [cycle |-> n]
  ELSE [Name |-> h[n].Name, Type |-> h[n].Type, Content |-> h[n].Content,
        Children |-> [j \in 1..Len(h[n].Children) |->
                        TreeOf(h, h[n].Children[j], above \cup {n})]]

Observe(h, fs) == [tree |-> TreeOf(h, fs.Root, {}), pwd |-> Pwd(fs)]

\* ------------------------------------------------------------ the inputs
W(word) == <<word>>
HomeFile(name) == <<"~", name>>

\* Input lines typed at the runner, as token sequences; <<" ">> is whitespace.
Inputs ==
  { << <<" ">> >>,
    << W("cd") >>,
    << W("cd"), <<"", "tmp">> >>,
    << W("cd"), HomeFile(".d") >>,
    << W("ls"), W("-a") >>,
    << W("mkdir"), HomeFile("workspace") >>,
    << W("mkdir"), HomeFile(".d") >>,
    << W("mkdir"), W("x"), <<"~", "readme.txt", "y">> >>,
    << W("touch"), W("x"), <<"~", "readme.txt", "y">> >>,
    << W("rm"), HomeFile(".d") >>,
    << W("rm"), W("x"), HomeFile("workspace") >>,
    << W("cp"), HomeFile("readme.txt"), W("x") >>,
    << W("mv"), Slash, W("x") >>,
    << W("mv"), HomeFile("readme.txt"), <<"", "etc", "passwd", "q">> >>,
    << W("mv"), W("x"), HomeFile("workspace") >>,
    << W("find"), Slash, W("-name"), W("*") >>,
    << W("echo"), W("hi"), W(">"), W("x") >>,
    << W("echo"), W("hi"), W(">>"), W("x") >>,
    << W("tmux") >>,
    << W("frobnicate") >> }

\* Arguments of the direct Filesystem calls.
ReadmePath == HomeFile("readme.txt")
UnderReadme == <<"~", "readme.txt", "y">>
TmpPath == <<"", "tmp">>

XPath == HomeFile("x")
DotPath == HomeFile(".d")
UnderDot == <<"~", ".d", "y">>

MkdirPaths == { XPath, UnderDot, UnderReadme }
TouchPaths == { XPath, DotPath }
WritePaths == { XPath }
RmPaths == { XPath, DotPath, TmpPath }
CdPaths == { DotPath, W("~") }
CpPairs == { <<ReadmePath, TmpPath>> }
MvPairs == { <<ReadmePath, XPath>> }
Contents == { <<"hi", "\n">> }

\* ------------------------------------------------------------- the steps
ContentsFit(h) == \A i \in 1..Len(h) : Len(h[i].Content) <= MaxContent

Called(op, input, result) == [op |-> op, input |-> input, result |-> result]

Init ==
  /\ Mission \in Missions
  /\ \E r \in {NewMissionRunner(Mission)} :
       /\ heap = r.h
       /\ FS = r.fs
       /\ InitialFS = r.ifs
  /\ Attempts = 0
  /\ Completed = FALSE
  /\ History = <<>>
  /\ Tmux = NoTmux
  /\ last = Called("NewMissionRunner", <<>>, Ok(<<>>))
  /\ status = "running"

\* r.Execute(input) with a pwd that moves to the root.
ExecuteStepPwdMoves(input) ==
  /\ status = "running"
  /\ Len(History) < MaxHistory
  /\ \E r \in {Execute(heap, FS, Mission, Attempts, Completed, History, Tmux, input)} :
     \E c \in {Collect(r.h, InitialFS, r.fs)} :
        /\ Len(c.h) <= MaxNodes
        /\ ContentsFit(c.h)
        /\ heap' = c.h
        /\ FS' = IF input = << <<"pwd">> >>
                   THEN [c.fs EXCEPT !.Cwd = c.fs.Root, !.CwdPath = Slash]
                   ELSE c.fs
        /\ InitialFS' = c.ifs
        /\ Attempts' = r.Attempts
        /\ Completed' = r.Completed
        /\ History' = r.History
        /\ Tmux' = r.tmux
        /\ last' = Called("Execute", input, r.result)
        /\ status' = IF r.ok THEN "running" ELSE "crashed"
  /\ UNCHANGED Mission

\* r.Execute(input)
ExecuteStep(input) ==
  /\ status = "running"
  /\ Len(History) < MaxHistory
  /\ \E r \in {Execute(heap, FS, Mission, Attempts, Completed, History, Tmux, input)} :
     \E c \in {Collect(r.h, InitialFS, r.fs)} :
        /\ Len(c.h) <= MaxNodes
        /\ ContentsFit(c.h)
        /\ heap' = c.h
        /\ FS' = c.fs
        /\ InitialFS' = c.ifs
        /\ Attempts' = r.Attempts
        /\ Completed' = r.Completed
        /\ History' = r.History
        /\ Tmux' = r.tmux
        /\ last' = Called("Execute", input, r.result)
        /\ status' = IF r.ok THEN "running" ELSE "crashed"
  /\ UNCHANGED Mission

\* A Reset that makes the baseline itself the live Filesystem.
ResetStepAliased ==
  /\ status = "running"
  /\ \E c \in {Collect(heap, InitialFS, InitialFS)} :
        /\ heap' = c.h
        /\ FS' = c.ifs
        /\ InitialFS' = c.ifs
  /\ Attempts' = 0
  /\ History' = <<>>
  /\ last' = Called("Reset", <<>>, Ok(<<>>))
  /\ UNCHANGED <<Mission, Completed, Tmux, status>>

\* A Reset that zeroes the attempt counter and keeps the history.
ResetStepKeepsHistory ==
  /\ status = "running"
  /\ \E r \in {Clone(heap, InitialFS)} :
     \E c \in {Collect(r.h, InitialFS, r.fs)} :
        /\ heap' = c.h
        /\ FS' = c.fs
        /\ InitialFS' = c.ifs
        /\ status' = IF r.ok THEN "running" ELSE "crashed"
  /\ Attempts' = 0
  /\ last' = Called("Reset", <<>>, Ok(<<>>))
  /\ UNCHANGED <<Mission, Completed, History, Tmux>>

\* A Reset that also ends the tmux session.
ResetStepClearsTmux ==
  /\ status = "running"
  /\ \E r \in {Clone(heap, InitialFS)} :
     \E c \in {Collect(r.h, InitialFS, r.fs)} :
        /\ heap' = c.h
        /\ FS' = c.fs
        /\ InitialFS' = c.ifs
        /\ status' = IF r.ok THEN "running" ELSE "crashed"
  /\ Attempts' = 0
  /\ History' = <<>>
  /\ Tmux' = NoTmux
  /\ last' = Called("Reset", <<>>, Ok(<<>>))
  /\ UNCHANGED <<Mission, Completed>>

\* r.Reset()
ResetStep ==
  /\ status = "running"
  /\ \E r \in {Clone(heap, InitialFS)} :
     \E c \in {Collect(r.h, InitialFS, r.fs)} :
        /\ heap' = c.h
        /\ FS' = c.fs
        /\ InitialFS' = c.ifs
        /\ status' = IF r.ok THEN "running" ELSE "crashed"
  /\ Attempts' = 0
  /\ History' = <<>>
  /\ last' = Called("Reset", <<>>, Ok(<<>>))
  /\ UNCHANGED <<Mission, Completed, Tmux>>

\* A direct call r.FS.<op>(...) that returns the heap and an error.
FsCall(op, input, call, fs) ==
  /\ status = "running"
  /\ \E r \in {call} :
     \E c \in {Collect(r.h, InitialFS, fs)} :
       /\ Len(c.h) <= MaxNodes
       /\ ContentsFit(c.h)
       /\ heap' = c.h
       /\ FS' = c.fs
       /\ InitialFS' = c.ifs
       /\ last' = Called(op, input, IF r.err = Nil THEN Ok(<<>>) ELSE Fail(r.err))
  /\ UNCHANGED <<Mission, Attempts, Completed, History, Tmux, status>>

MkdirStep(p) == FsCall("Mkdir", <<p>>, Mkdir(heap, FS, p), FS)
TouchStep(p) == FsCall("Touch", <<p>>, Touch(heap, FS, p), FS)
WriteFileStep(p, c) == FsCall("WriteFile", <<p, c>>, WriteFile(heap, FS, p, c), FS)
RmStep(p) == FsCall("Rm", <<p>>, Rm(heap, FS, p), FS)
CpStep(src, dst) == FsCall("Cp", <<src, dst>>, Cp(heap, FS, src, dst), FS)
MvStep(src, dst) == FsCall("Mv", <<src, dst>>, Mv(heap, FS, src, dst), FS)
CdStep(p) ==
  \E r \in {Cd(heap, FS, p)} : FsCall("Cd", <<p>>, [h |-> heap, err |-> r.err], r.fs)

Next ==
  \/ \E input \in Inputs : ExecuteStep(input)
  \/ ResetStep

Spec == Init /\ [][Next]_vars

NextFS ==
  \/ \E p \in MkdirPaths : MkdirStep(p)
  \/ \E p \in TouchPaths : TouchStep(p)
  \/ \E p \in WritePaths, c \in Contents : WriteFileStep(p, c)
  \/ \E p \in RmPaths : RmStep(p)
  \/ \E a \in CpPairs : CpStep(a[1], a[2])
  \/ \E a \in MvPairs : MvStep(a[1], a[2])
  \/ \E p \in CdPaths : CdStep(p)
  \/ ResetStep

InitFS == Init /\ Mission.ID = "2.1-create-dir"

SpecFS == InitFS /\ [][NextFS]_vars

\* Lines of every kind Execute tells apart: blank, succeeding, failing,
\* changing the session state, and unrecognized with and without operands.
Lines ==
  { << <<" ">> >>,
    << W("pwd") >>,
    << W("cd") >>,
    << W("cd"), HomeFile("y") >>,
    << W("mkdir"), W("x") >>,
    << W("tmux") >>,
    << W("tmux"), W("detach") >>,
    << W("frobnicate") >>,
    << W("sudo"), W("rm"), ReadmePath >> }

NextLines ==
  \/ \E input \in Lines : ExecuteStep(input)
  \/ ResetStep

InitLines == Init /\ Mission.ID = "0.3-go-home"

SpecLines == InitLines /\ [][NextLines]_vars

\* Arguments of the direct calls r.executeTmux(args).
TmuxArgs ==
  { <<>>,
    << W("new") >>,
    << W("new"), W("-s"), W("work") >>,
    << W("new-session"), W("-s") >>,
    << W("attach") >>,
    << W("a") >>,
    << W("detach") >>,
    << W("d") >>,
    << W("ls") >>,
    << W("split-window"), W("-v") >>,
    << W("split") >>,
    << W("select-pane"), W("-L") >>,
    << W("select-pane") >>,
    << W("new-window") >>,
    << W("select-window"), W("-n") >>,
    << W("select-window"), W("-p") >>,
    << W("select-window") >>,
    << W("kill-session") >> }

\* r.executeTmux(args) with a detach that forgets the current pane.
TmuxStepDetachForgets(args) ==
  /\ status = "running"
  /\ \E r \in {executeTmux(Tmux, args)} :
       /\ r.tmux.Panes <= MaxPanes
       /\ r.tmux.Windows <= MaxWindows
       /\ Tmux' = IF args # <<>> /\ args[1] \in {<<"detach">>, <<"d">>}
                    THEN [r.tmux EXCEPT !.CurrentPane = 0]
                    ELSE r.tmux
       /\ last' = Called("executeTmux", args, r.result)
  /\ UNCHANGED <<heap, FS, InitialFS, Mission, Attempts, Completed, History, status>>

\* r.executeTmux(args) with a kill-session that keeps the session name.
TmuxStepKillKeepsName(args) ==
  /\ status = "running"
  /\ \E r \in {executeTmux(Tmux, args)} :
       /\ r.tmux.Panes <= MaxPanes
       /\ r.tmux.Windows <= MaxWindows
       /\ Tmux' = IF args = << <<"kill-session">> >> /\ r.result.Success
                    THEN [r.tmux EXCEPT !.SessionName = Tmux.SessionName]
                    ELSE r.tmux
       /\ last' = Called("executeTmux", args, r.result)
  /\ UNCHANGED <<heap, FS, InitialFS, Mission, Attempts, Completed, History, status>>

\* r.executeTmux(args) with a split-window that also splits a detached session.
TmuxStepDetachedSplits(args) ==
  /\ status = "running"
  /\ \E r \in {executeTmux(Tmux, args)} :
       /\ r.tmux.Panes <= MaxPanes
       /\ r.tmux.Windows <= MaxWindows
       /\ Tmux' = IF args = << <<"split">> >> /\ Tmux.Detached /\ Tmux.Panes < MaxPanes
                    THEN [r.tmux EXCEPT !.Panes = @ + 1]
                    ELSE r.tmux
       /\ last' = Called("executeTmux", args, r.result)
  /\ UNCHANGED <<heap, FS, InitialFS, Mission, Attempts, Completed, History, status>>

\* r.executeTmux(args) with a select-pane that stops at the last pane.
TmuxStepPaneNoWrap(args) ==
  /\ status = "running"
  /\ \E r \in {executeTmux(Tmux, args)} :
       /\ r.tmux.Panes <= MaxPanes
       /\ r.tmux.Windows <= MaxWindows
       /\ Tmux' = IF args # <<>> /\ args[1] = <<"select-pane">> /\ r.result.Success
                      /\ Tmux.CurrentPane = Tmux.Panes - 1
                    THEN Tmux
                    ELSE r.tmux
       /\ last' = Called("executeTmux", args, r.result)
  /\ UNCHANGED <<heap, FS, InitialFS, Mission, Attempts, Completed, History, status>>

\* r.executeTmux(args)
TmuxStep(args) ==
  /\ status = "running"
  /\ \E r \in {executeTmux(Tmux, args)} :
       /\ r.tmux.Panes <= MaxPanes
       /\ r.tmux.Windows <= MaxWindows
       /\ Tmux' = r.tmux
       /\ last' = Called("executeTmux", args, r.result)
  /\ UNCHANGED <<heap, FS, InitialFS, Mission, Attempts, Completed, History, status>>

NextTmux == \E args \in TmuxArgs : TmuxStep(args)

InitTmux == Init /\ Mission.ID = "0.1-where-am-i"

SpecTmux == InitTmux /\ [][NextTmux]_vars

\* ----------------------------------------------- missions from content
\* Deserialized goal structures of the mission definitions.
Str(s) == [t |-> StringType, v |-> s]
Num(n) == [t |-> IntType, v |-> n]
Bool(b) == [t |-> BoolType, v |-> b]
MapOf(m) == [t |-> MapType, v |-> m]
ListOf(items) == [t |-> ListType, v |-> items]
Entry(key, value) == [key |-> key, value |-> value]
Single(key, value) == << Entry(key, value) >>

RawAlways == Single("always", Bool(TRUE))
RawExists == Single("path_exists", Str(HomeFile("x")))
RawContains ==
  Single("file_contains",
         MapOf(<< Entry("path", Str(HomeFile("x"))), Entry("content", Str(<<"World">>)) >>))
RawUnknown == Single("bogus", Str(HomeFile("x")))

BaseRaws ==
  { <<>>, RawAlways, RawExists, RawContains, RawUnknown,
    Single("is_dir", Str(HomeFile("x"))),
    Single("pwd_equals", Num(1)),
    Single("and", Str(HomeFile("x"))),
    Single("or", MapOf(<<>>)),
    Single("not", ListOf(<<>>)),
    Single("and", ListOf(<<>>)),
    Single("or", ListOf(<<>>)),
    Single("and", ListOf(<< Str(HomeFile("x")) >>)),
    Single("file_contains", Str(HomeFile("x"))),
    Single("file_contains", MapOf(<< Entry("path", Str(HomeFile("x"))) >>)),
    Single("file_contains",
           MapOf(<< Entry("path", Str(HomeFile("x"))), Entry("content", Num(1)) >>)),
    << Entry("always", Bool(TRUE)), Entry("bogus", Num(1)) >>,
    << Entry("path_exists", Str(HomeFile("x"))), Entry("is_dir", Num(1)) >> }

PairRaws ==
  LET leaves == { RawAlways, RawExists, RawContains }
      items == leaves \cup { Single("not", MapOf(r)) : r \in leaves } \cup { RawUnknown }
  IN { Single(key, ListOf(<< MapOf(a), MapOf(b) >>))
       : key \in {"and", "or"}, a \in items, b \in items }

\* The structures nested to the depth d.
RECURSIVE Raws(_)
Raws(d) ==
  IF d = 0 THEN BaseRaws
  ELSE BaseRaws \cup PairRaws
       \cup { Single("not", MapOf(r)) : r \in Raws(d - 1) }
       \cup { Single(key, ListOf(<< MapOf(r) >>)) : key \in {"and", "or"}, r \in Raws(d - 1) }

\* A mission definition whose goal is still the deserialized structure Raw.
YAMLMission(raw) == [ID |-> "yaml", Setup |-> <<>>, Goal |-> NoGoal, Raw |-> raw]

InitGoal ==
  /\ Mission \in { YAMLMission(raw) : raw \in Raws(MaxDepth) }
  /\ \E r \in {NewMissionRunner(Mission)} :
       /\ heap = r.h
       /\ FS = r.fs
       /\ InitialFS = r.ifs
  /\ Attempts = 0
  /\ Completed = FALSE
  /\ History = <<>>
  /\ Tmux = NoTmux
  /\ last = Called("YAMLMission", <<>>, Ok(<<>>))
  /\ status = "loading"

\* convertMission(ym): the mission is skipped when its goal does not parse.
ConvertMissionStep ==
  /\ status = "loading"
  /\ \E r \in ParseGoal(Mission.Raw) :
       /\ Mission' = [Mission EXCEPT !.Goal = r.node]
       /\ last' = Called("convertMission", <<>>,
                         IF r.err = Nil THEN Ok(<<>>) ELSE Fail(r.err))
       /\ status' = IF r.err = Nil THEN "running" ELSE "skipped"
  /\ UNCHANGED <<heap, FS, InitialFS, Attempts, Completed, History, Tmux>>

\* mission.Goal(fs): the closure over the parsed goal.
EvaluateStep ==
  /\ status = "running"
  /\ last' = Called("Goal", <<>>,
                    [Ok(<<>>) EXCEPT !.Completed = Evaluate(heap, FS, Mission.Goal)])
  /\ UNCHANGED <<heap, FS, InitialFS, Mission, Attempts, Completed, History, Tmux, status>>

GoalTexts == { <<"Hello ", "World", "!">>, <<"Goodbye">> }

NextGoal ==
  \/ ConvertMissionStep
  \/ EvaluateStep
  \/ \E c \in GoalTexts : WriteFileStep(HomeFile("x"), c)
  \/ RmStep(HomeFile("x"))

SpecGoal == InitGoal /\ [][NextGoal]_vars

\* ------------------------------------------------ lines of the shell
\* Input lines of every command that only reads, of echo with and without
\* a redirect, and of mkdir and cd.
ShellLines ==
  { << <<" ">> >>,
    << W("pwd") >>,
    << W("ls"), W("-a") >>,
    << W("ls"), HomeFile("y") >>,
    << W("cat"), ReadmePath >>,
    << W("cat") >>,
    << W("grep"), W("Welcome to the terminal!"), ReadmePath >>,
    << W("grep"), W("hi"), W("x") >>,
    << W("find"), Slash, W("-name"), W("*") >>,
    << W("find") >>,
    << W("echo"), W("hi"), W("there") >>,
    << W("echo"), W("hi"), W(">"), W("x") >>,
    << W("echo"), W("a"), W("b"), W(">"), W("x") >>,
    << W("echo"), W("hi"), W(">>"), W("x") >>,
    << W("echo"), W("hi"), W(">"), UnderReadme >>,
    << W("clear") >>,
    << W("help") >>,
    << W("tmux") >>,
    << W("tmux"), W("detach") >>,
    << W("tmux"), W("ls") >>,
    << W("tmux"), W("kill-session") >>,
    << W("tmux"), W("bogus") >>,
    << W("frobnicate") >>,
    << W("mkdir"), W("x") >>,
    << W("cd"), TmpPath >> }

NextShell ==
  \/ \E input \in ShellLines : ExecuteStep(input)
  \/ ResetStep

InitShell == Init /\ Mission.ID = "2.1-create-dir"

SpecShell == InitShell /\ [][NextShell]_vars

\* ================================================================ claims
GoalHolds == Mission.Goal # NoGoal /\ Evaluate(heap, FS, Mission.Goal)

\* The last step was an Execute call that returned.
ExecuteReturned == last.op = "Execute" /\ status = "running"

\* This step is an Execute call that returns.
ExecuteReturns == Attempts' = Attempts + 1 /\ status' = "running"

NonBlank(input) == Fields(input) # <<>>

\* The live Filesystem right after setup, as Observe sees it.
Baseline == LET s == SetupFilesystem(Mission) IN Observe(s.h, s.fs)

\* The Files below a root, following Children only.
RECURSIVE Descend(_, _, _)
Descend(h, stack, seen) ==
  IF stack = <<>> THEN seen
  ELSE IF Head(stack) \in seen THEN Descend(h, Tail(stack), seen)
  ELSE Descend(h, h[Head(stack)].Children \o Tail(stack), seen \cup {Head(stack)})

Reachable(h, root) == Descend(h, <<root>>, {})

\* ----------------------------------------------------------------- C1
\* C1: Clone independence.  The runner holds a Filesystem and its clone
\* (InitialFS is FS.Clone() at construction, FS is InitialFS.Clone() after
\* Reset); no call on one of them changes any observation of the other.
C1_CloneIndependent ==
  [][Observe(heap', InitialFS') = Observe(heap, InitialFS)]_vars

C1_Witness ==
  /\ last.op \in {"Mkdir", "Touch", "WriteFile", "Cp", "Mv", "Rm", "Cd"}
  /\ last.result.Success
  /\ Observe(heap, FS) # Observe(heap, InitialFS)

\* ----------------------------------------------------------------- C2
\* C2: after Reset the live Filesystem is observably the post-setup
\* baseline, the attempt counter is 0 and the history is empty.
C2_ResetRestores ==
  (last.op = "Reset" /\ status = "running") =>
     /\ Observe(heap, FS) = Baseline
     /\ Attempts = 0
     /\ History = <<>>

\* A Reset after an Execute that had completed the mission.
C2_Witness == last.op = "Reset" /\ status = "running" /\ Completed

\* ----------------------------------------------------------------- C3
\* C3 as claimed: whenever the goal holds on the Filesystem as an Execute
\* returns, the result and the runner are both completed.
C3_Original ==
  (ExecuteReturned /\ GoalHolds) => (last.result.Completed /\ Completed)

\* C3 as amended: the same, for every Execute whose input is not blank.
C3_GoalCompletes ==
  (ExecuteReturned /\ NonBlank(last.input) /\ GoalHolds) =>
     (last.result.Completed /\ Completed)

C3_Witness ==
  ExecuteReturned /\ NonBlank(last.input) /\ GoalHolds /\ last.result.Completed

\* ----------------------------------------------------------------- C4
\* C4: the runner's Completed flag, once true, stays true over every
\* Execute and every Reset.
C4_CompletedSticky == [][Completed => Completed']_vars

\* The goal was reached earlier and the last command made it false again.
C4_Witness == ExecuteReturned /\ Completed /\ ~GoalHolds

\* ----------------------------------------------------------------- C5
\* C5 as claimed: once an Execute has returned completed = true (which is
\* when the runner's flag is set), every later Execute returns completed.
C5_Original == [][(Completed /\ ExecuteReturns) => last'.result.Completed]_vars

\* C5 as amended: a result is completed exactly when its input is not blank
\* and the goal holds as the call returns, whatever earlier calls returned;
\* a completed result always leaves the runner's flag set.
C5_ResultTracksGoal ==
  ExecuteReturned =>
     /\ last.result.Completed <=> (NonBlank(last.input) /\ GoalHolds)
     /\ last.result.Completed => Completed

\* The runner is completed but the last result is not.
C5_Witness == ExecuteReturned /\ Completed /\ ~last.result.Completed

\* ----------------------------------------------------------------- C6
\* C6: an Execute that returns an error result leaves the Filesystem as it
\* was before the call.
C6_ErrorAtomic ==
  [][(ExecuteReturns /\ ~last'.result.Success /\ last'.result.Error # "")
       => Observe(heap', FS') = Observe(heap, FS)]_vars

\* ----------------------------------------------------------------- C7
\* C7: the Files below the root form a rooted tree: the root has no parent
\* and is nobody's child, no File is below itself, and every other File is
\* listed once, in the Children of its Parent.
TreeInvariant(h, fs) ==
  LET nodes == Reachable(h, fs.Root)
      Listings(n) == {<<m, j>> \in nodes \X (1..Len(h)) :
                        j <= Len(h[m].Children) /\ h[m].Children[j] = n}
  IN /\ h[fs.Root].Parent = NULL
     /\ Listings(fs.Root) = {}
     /\ \A n \in nodes : n \notin Descend(h, h[n].Children, {})
     /\ \A n \in nodes \ {fs.Root} :
          /\ Cardinality(Listings(n)) = 1
          /\ \E l \in Listings(n) : l[1] = h[n].Parent

C7_RootedTree == TreeInvariant(heap, FS)

\* ----------------------------------------------------------------- C8
\* C8: every Execute and every Reset returns.
C8_Returns == status = "running"

\* ----------------------------------------------------------------- C9
\* The absolute path p and the paths of the directories above it.
Ancestors(p) == {Slash} \cup {SubSeq(p, 1, k) : k \in 2..Len(p)}

\* C9: in every state, for every path p, a Mkdir(p) that succeeds leaves p
\* and every ancestor of p existing and a directory, and a second Mkdir(p)
\* succeeds and changes nothing.
C9_MkdirIdempotent ==
  \A p \in MkdirPaths :
    LET r == Mkdir(heap, FS, p) IN
      r.err = Nil =>
        /\ Exists(r.h, FS, p)
        /\ IsDir(r.h, FS, p)
        /\ \A a \in Ancestors(resolvePath(FS, p)) :
              Exists(r.h, FS, a) /\ IsDir(r.h, FS, a)
        /\ Mkdir(r.h, FS, p) = [h |-> r.h, err |-> Nil]

\* A Mkdir that created two levels has just succeeded.
C9_Witness ==
  /\ last.op = "Mkdir"
  /\ last.input = <<UnderDot>>
  /\ last.result.Success
  /\ IsDir(heap, FS, UnderDot)

\* ---------------------------------------------------------------- C10
\* A File that Rm must refuse: a directory, dot-named or not.  A dot-named
\* File is known to be a directory when it holds Children.
IsDirectoryNode(h, node) ==
  h[node].Type = FileTypeDirectory \/ h[node].Children # <<>>

\* The tree without the File at the path segs below it.
RECURSIVE Prune(_, _)
Prune(tree, segs) ==
  IF Len(segs) = 1
    THEN [tree EXCEPT !.Children = SelectSeq(@, LAMBDA k : k.Name # segs[1])]
    ELSE [tree EXCEPT !.Children =
            [j \in 1..Len(@) |-> IF @[j].Name = segs[1]
                                   THEN Prune(@[j], Tail(segs)) ELSE @[j]]]

\* C10: Rm(p) on an existing directory returns an error and leaves the
\* whole tree as it was; Rm(p) on an existing file succeeds, after which p
\* does not exist and everything else is as it was.
C10_RmFilesOnly ==
  [][\A p \in RmPaths :
       LET node == getNode(heap, FS, resolvePath(FS, p)) IN
       (last'.op = "Rm" /\ last'.input = <<p>> /\ node # NULL) =>
          IF IsDirectoryNode(heap, node)
            THEN /\ ~last'.result.Success
                 /\ Observe(heap', FS') = Observe(heap, FS)
            ELSE /\ last'.result.Success
                 /\ ~Exists(heap', FS', p)
                 /\ Observe(heap', FS').tree =
                      Prune(Observe(heap, FS).tree, splitPath(resolvePath(FS, p)))
                 /\ Pwd(FS') = Pwd(FS)]_vars

\* ---------------------------------------------------------------- C11
\* Arguments of the probing calls: files to move or copy, and directories
\* to move or copy them into.
FileSources == { ReadmePath, XPath }
DirTargets == { TmpPath, DotPath }

\* dstDir/basename(src) as an absolute path.
Under(fs, dstDir, src) ==
  Join(resolvePath(fs, dstDir), <<Base(resolvePath(fs, src))>>)

\* The goal and[path_exists dstDir/basename, not path_exists src].
MovedGoal(fs, dstDir, src) ==
  AndGoal(<<PathExistsGoal(Under(fs, dstDir, src)),
            NotGoal(PathExistsGoal(resolvePath(fs, src)))>>)

\* C11: in every state, for every regular file src and every existing
\* directory dstDir that does not already hold src, Mv(src, dstDir)
\* succeeds, after which the file is at dstDir/basename(src) with the content
\* it had, src does not exist, and the goal and[path_exists dstDir/basename,
\* not path_exists src] has gone from false to true.
C11_MvIntoDirectory ==
  \A src \in FileSources, dstDir \in DirTargets :
    LET s == getNode(heap, FS, resolvePath(FS, src))
        d == getNode(heap, FS, resolvePath(FS, dstDir))
        Holds(r) ==
          /\ r.err = Nil
          /\ ReadFile(r.h, FS, Under(FS, dstDir, src)) =
               [content |-> heap[s].Content, err |-> Nil]
          /\ ~Exists(r.h, FS, src)
          /\ ~Evaluate(heap, FS, MovedGoal(FS, dstDir, src))
          /\ Evaluate(r.h, FS, MovedGoal(FS, dstDir, src))
    IN (/\ s # NULL
        /\ heap[s].Type = FileTypeRegular
        /\ d # NULL
        /\ IsDirectoryNode(heap, d)
        /\ heap[s].Parent # d)
       => Holds(Mv(heap, FS, src, dstDir))

\* ---------------------------------------------------------------- C12
CpTargets == DirTargets \cup { HomeFile("y") }

\* C12: in every state, for every regular file src and every dst, a Cp(src,
\* dst) that succeeds leaves src readable with the content it had and a file
\* with that content at the destination: dst/basename(src) when dst named an
\* existing directory, dst otherwise.  An existing destination directory
\* keeps its name, type and content.
C12_CpKeepsSource ==
  \A src \in FileSources, dst \in CpTargets :
    LET s == getNode(heap, FS, resolvePath(FS, src))
        d == getNode(heap, FS, resolvePath(FS, dst))
        intoDir == d # NULL /\ IsDirectoryNode(heap, d)
        Holds(r, dest) ==
          r.err = Nil =>
            /\ ReadFile(r.h, FS, src) = [content |-> heap[s].Content, err |-> Nil]
            /\ ReadFile(r.h, FS, dest) = [content |-> heap[s].Content, err |-> Nil]
            /\ ~IsDir(r.h, FS, dest)
            /\ intoDir =>
                 /\ r.h[d].Name = heap[d].Name
                 /\ r.h[d].Type = heap[d].Type
                 /\ r.h[d].Content = heap[d].Content
    IN (s # NULL /\ heap[s].Type = FileTypeRegular)
       => Holds(Cp(heap, FS, src, dst),
                IF intoDir THEN Under(FS, dst, src) ELSE resolvePath(FS, dst))

\* ---------------------------------------------------------------- C13
WriteProbes == { XPath, DotPath, TmpPath, UnderReadme }
ProbeContents == Contents \cup { <<"b">> }

\* C13: in every state, for every path p and contents c and c2, a
\* WriteFile(p, c) that succeeds is followed by a ReadFile(p) that succeeds
\* with exactly c, and a further successful WriteFile(p, c2) by a ReadFile(p)
\* that returns c2.
C13_WriteReadRoundTrip ==
  \A p \in WriteProbes, c \in ProbeContents, c2 \in ProbeContents :
    LET Again(r2) ==
          r2.err = Nil => ReadFile(r2.h, FS, p) = [content |-> c2, err |-> Nil]
        Holds(r) ==
          r.err = Nil =>
            /\ ReadFile(r.h, FS, p) = [content |-> c, err |-> Nil]
            /\ Again(WriteFile(r.h, FS, p, c2))
    IN Holds(WriteFile(heap, FS, p, c))

\* ---------------------------------------------------------------- C14
LsProbes == { EmptyStr, W("~"), DotPath, TmpPath }

\* How often e occurs in a sequence.
Count(seq, e) == Cardinality({i \in 1..Len(seq) : seq[i] = e})

\* The entries Ls has to return for a directory, in the order of its
\* Children: the name of every child, marked when the child is a directory,
\* without the dot-named children unless showHidden.
RECURSIVE Entries(_, _, _)
Entries(h, kids, showHidden) ==
  IF kids = <<>> THEN <<>>
  ELSE IF HasDotPrefix(h[Head(kids)].Name) /\ ~showHidden
    THEN Entries(h, Tail(kids), showHidden)
  ELSE <<[name |-> h[Head(kids)].Name, dir |-> IsDirectoryNode(h, Head(kids))]>>
       \o Entries(h, Tail(kids), showHidden)

\* C14: in every state, Ls(path, showHidden) on a directory succeeds and
\* returns exactly the names of its immediate children, without the
\* dot-named ones unless showHidden, in alphabetical order, every directory
\* marked with the separator and no file marked.
C14_LsListsChildren ==
  \A path \in LsProbes, showHidden \in BOOLEAN :
    LET d == getNode(heap, FS, resolvePath(FS, IF path = EmptyStr THEN Pwd(FS)
                                               ELSE path))
        Holds(r, expected) ==
          /\ r.err = Nil
          /\ Len(r.names) = Len(expected)
          /\ \A e \in Range(expected) : Count(r.names, e) = Count(expected, e)
          /\ \A i \in 1..(Len(r.names) - 1) :
                NameRank(r.names[i].name) <= NameRank(r.names[i + 1].name)
    IN (d # NULL /\ IsDirectoryNode(heap, d))
       => Holds(Ls(heap, FS, path, showHidden),
                Entries(heap, heap[d].Children, showHidden))

\* ---------------------------------------------------------------- C15
CdProbes ==
  { EmptyStr, W("~"), W(".."), TmpPath, DotPath, ReadmePath, HomeFile(".bashrc"),
    HomeFile("y") }

\* A File that is known to be a file: a regular one, or a dot-named one that
\* holds content and no Children.
IsFileNode(h, node) ==
  /\ ~IsDirectoryNode(h, node)
  /\ h[node].Type = FileTypeRegular \/ h[node].Content # <<>>

\* C15: in every state, Cd(path) on an existing directory succeeds and makes
\* Pwd() the normalized absolute path of it (home for an empty path or "~");
\* on an absent path or a file, dot-named or not, it fails and leaves Pwd()
\* as it was.
C15_CdDirectoriesOnly ==
  \A path \in CdProbes :
    LET target == IF path = EmptyStr \/ path = W("~") THEN FS.Home
                  ELSE resolvePath(FS, path)
        Holds(r, node) ==
          /\ (node # NULL /\ IsDirectoryNode(heap, node))
                => (r.err = Nil /\ Pwd(r.fs) = target)
          /\ (node = NULL \/ IsFileNode(heap, node))
                => (r.err # Nil /\ Pwd(r.fs) = Pwd(FS))
    IN Holds(Cd(heap, FS, path), getNode(heap, FS, target))

\* ---------------------------------------------------------------- C16
\* This step is a successful call of op on the path p, which did not exist
\* before the call: the call created p.
Creates(op, p) ==
  /\ last'.op = op
  /\ last'.input[1] = p
  /\ last'.result.Success
  /\ ~Exists(heap, FS, p)

\* C16: a path created by Touch or WriteFile exists, is not a directory and
\* satisfies the goal is_file; a path created by Mkdir is a directory and
\* does not satisfy is_file.
C16_ProbesAgreeWithCreation ==
  [][\A p \in TouchPaths \cup WritePaths \cup MkdirPaths :
       /\ (Creates("Touch", p) \/ Creates("WriteFile", p)) =>
            /\ Exists(heap', FS', p)
            /\ ~IsDir(heap', FS', p)
            /\ Evaluate(heap', FS', IsFileGoal(p))
       /\ Creates("Mkdir", p) =>
            /\ IsDir(heap', FS', p)
            /\ ~Evaluate(heap', FS', IsFileGoal(p))]_vars

\* ---------------------------------------------------------------- C17
\* C17: the runner starts with no attempts and no history; every Execute,
\* whatever its input and whether or not it returns, adds one to the attempt
\* counter and appends its raw input to the history; every Reset empties
\* both.  So the attempt counter always equals the length of the history,
\* the number of Execute calls since construction or the last Reset.
C17_AttemptsCountHistory ==
  /\ Attempts = 0 /\ History = <<>>
  /\ [][/\ last'.op = "Execute" =>
             /\ Attempts' = Attempts + 1
             /\ History' = Append(History, last'.input)
        /\ last'.op = "Reset" => (Attempts' = 0 /\ History' = <<>>)
        /\ Attempts' = Len(History')]_vars

\* A blank line was executed after a command that failed.
C17_Witness ==
  /\ last.op = "Execute"
  /\ ~NonBlank(last.input)
  /\ Attempts = 2
  /\ History = << <<W("frobnicate")>>, last.input >>

\* ---------------------------------------------------------------- C18
\* The command names executeCommand has a case for.
CommandNames ==
  { W("pwd"), W("ls"), W("cd"), W("mkdir"), W("touch"), W("cat"), W("cp"), W("mv"),
    W("rm"), W("grep"), W("find"), W("echo"), W("clear"), W("help"), W("tmux") }

\* This step is an Execute of a line whose first token is no command name.
ExecutesUnrecognized ==
  /\ last'.op = "Execute"
  /\ NonBlank(last'.input)
  /\ Fields(last'.input)[1] \notin CommandNames

\* C18: an Execute of a line whose first token is not a recognized command
\* name returns success = false with the command-not-found error and leaves
\* the Filesystem and the session state as they were.
C18_CommandNotFound ==
  [][ExecutesUnrecognized =>
       /\ ~last'.result.Success
       /\ last'.result.Error = "command not found"
       /\ last'.result.Output = <<>>
       /\ Observe(heap', FS') = Observe(heap, FS)
       /\ Tmux' = Tmux]_vars

\* An unrecognized line was executed inside an attached session.
C18_Witness ==
  /\ last.op = "Execute"
  /\ last.input = <<W("frobnicate")>>
  /\ ~last.result.Success
  /\ Tmux.InSession

\* ---------------------------------------------------------------- C19
\* The session states of the emulator.
Attached(t) == t.InSession /\ ~t.Detached
DetachedSession(t) == t.InSession /\ t.Detached
NoSession(t) == t = NoTmux

\* This step is a call of executeTmux with one of the subcommands subCmds.
TmuxCalls(subCmds) ==
  /\ last'.op = "executeTmux"
  /\ last'.input # <<>>
  /\ last'.input[1] \in subCmds

\* This step is a call of executeTmux without arguments.
TmuxCallsBare == last'.op = "executeTmux" /\ last'.input = <<>>

\* The name given with the last -s that is followed by a name; "0" if none.
GivenName(args) ==
  LET at == {i \in 1..(Len(args) - 1) : args[i] = W("-s")} IN
  IF at = {} THEN W("0")
  ELSE args[(CHOOSE i \in at : \A j \in at : j <= i) + 1]

\* Attached to a fresh session of the given name.
FreshSession(t, name) ==
  /\ Attached(t)
  /\ t.SessionName = name
  /\ t.Panes = 1 /\ t.Windows = 1
  /\ t.CurrentPane = 0 /\ t.CurrentWindow = 0

\* C19: tmux new / new-session fails with the nesting-guard error and leaves
\* the session state as it was exactly when a session is attached; with no
\* session or a detached one it succeeds and attaches a fresh session with
\* the -s name ("0" by default), one pane, one window, pane 0 and window 0.
\* A bare tmux with no session creates session "0", and a bare tmux while
\* attached fails with the nesting-guard error.
\* (The guard of a bare tmux tests InSession alone, so it also refuses a
\* detached session; the claim states nothing about that case.)
C19_NewSessionGuard ==
  [][/\ TmuxCalls({W("new"), W("new-session")}) =>
          IF Attached(Tmux)
            THEN /\ ~last'.result.Success
                 /\ last'.result.Error = ErrNested
                 /\ Tmux' = Tmux
            ELSE /\ NoSession(Tmux) \/ DetachedSession(Tmux)
                 /\ last'.result.Success
                 /\ FreshSession(Tmux', GivenName(Tail(last'.input)))
     /\ (TmuxCallsBare /\ NoSession(Tmux)) =>
          (last'.result.Success /\ FreshSession(Tmux', W("0")))
     /\ (TmuxCallsBare /\ Attached(Tmux)) =>
          /\ ~last'.result.Success
          /\ last'.result.Error = ErrNested
          /\ Tmux' = Tmux]_vars

\* tmux new -s work has just created the session "work".
C19_Witness ==
  /\ last.op = "executeTmux"
  /\ last.input = << W("new"), W("-s"), W("work") >>
  /\ last.result.Success
  /\ FreshSession(Tmux, W("work"))

\* ---------------------------------------------------------------- C20
AttachCmds == { W("attach"), W("attach-session"), W("a") }

\* C20: tmux attach fails and leaves the session state as it was when a
\* session is attached and when there is no session; from a detached session
\* it succeeds and the session is attached with its name, pane and window
\* counts and current pane and window as they were.
C20_AttachFromDetached ==
  [][TmuxCalls(AttachCmds) =>
       /\ NoSession(Tmux) \/ Attached(Tmux) \/ DetachedSession(Tmux)
       /\ (NoSession(Tmux) \/ Attached(Tmux)) =>
            (~last'.result.Success /\ Tmux' = Tmux)
       /\ DetachedSession(Tmux) =>
            /\ last'.result.Success
            /\ Attached(Tmux')
            /\ Tmux' = [Tmux EXCEPT !.Detached = FALSE]]_vars

\* A session "work" with two panes and two windows was attached again.
C20_Witness ==
  /\ last.op = "executeTmux"
  /\ last.input # <<>>
  /\ last.input[1] \in AttachCmds
  /\ last.result.Success
  /\ Attached(Tmux)
  /\ Tmux.SessionName = W("work")
  /\ Tmux.Panes = 2 /\ Tmux.Windows = 2 /\ Tmux.CurrentWindow = 1

\* ---------------------------------------------------------------- C21
DetachCmds == { W("detach"), W("detach-client"), W("d") }

\* C21: tmux detach fails and leaves the session state as it was when no
\* session is attached (no session, or a detached one); from an attached
\* session it succeeds, the session is detached with its name, pane and
\* window counts and current pane and window as they were, and an attach
\* after it gives back exactly the attached state before the detach.
C21_DetachFromAttached ==
  [][TmuxCalls(DetachCmds) =>
       IF Attached(Tmux)
         THEN /\ last'.result.Success
              /\ DetachedSession(Tmux')
              /\ Tmux' = [Tmux EXCEPT !.Detached = TRUE]
              /\ executeTmux(Tmux', << W("attach") >>).tmux = Tmux
         ELSE /\ NoSession(Tmux) \/ DetachedSession(Tmux)
              /\ ~last'.result.Success
              /\ Tmux' = Tmux]_vars

\* The session "work" was detached with pane 1 of two current.
C21_Witness ==
  /\ last.op = "executeTmux"
  /\ last.input # <<>>
  /\ last.input[1] \in DetachCmds
  /\ last.result.Success
  /\ DetachedSession(Tmux)
  /\ Tmux.SessionName = W("work")
  /\ Tmux.Panes = 2 /\ Tmux.CurrentPane = 1

\* ---------------------------------------------------------------- C22
\* C22: tmux kill-session fails and leaves the session state as it was
\* exactly when there is no session; with a session, attached or detached,
\* it succeeds and every field of the session state is back at its
\* no-session value, after which tmux attach fails, tmux ls reports
\* "no server running" and tmux new succeeds.
C22_KillSession ==
  [][TmuxCalls({W("kill-session")}) =>
       IF NoSession(Tmux)
         THEN ~last'.result.Success /\ Tmux' = Tmux
         ELSE /\ Attached(Tmux) \/ DetachedSession(Tmux)
              /\ last'.result.Success
              /\ NoSession(Tmux')
              /\ ~executeTmux(Tmux', << W("attach") >>).result.Success
              /\ executeTmux(Tmux', << W("ls") >>).result.Output = <<"no server running">>
              /\ executeTmux(Tmux', << W("new") >>).result.Success]_vars

\* A session was killed.
C22_Witness ==
  /\ last.op = "executeTmux"
  /\ last.input = << W("kill-session") >>
  /\ last.result.Success
  /\ NoSession(Tmux)

\* ---------------------------------------------------------------- C23
PaneWindowCmds ==
  { W("split-window"), W("split"), W("select-pane"), W("new-window"),
    W("select-window") }

\* C23: split-window, select-pane, new-window and select-window each fail
\* and leave the whole session state as it was whenever no session is
\* attached, that is with no session and with a detached one.
C23_NeedsAttachedSession ==
  [][(TmuxCalls(PaneWindowCmds) /\ ~Attached(Tmux)) =>
       /\ NoSession(Tmux) \/ DetachedSession(Tmux)
       /\ ~last'.result.Success
       /\ Tmux' = Tmux]_vars

\* A pane or window command was refused on a detached session of two panes.
C23_Witness ==
  /\ last.op = "executeTmux"
  /\ last.input # <<>>
  /\ last.input[1] \in PaneWindowCmds
  /\ ~last.result.Success
  /\ DetachedSession(Tmux)
  /\ Tmux.Panes = 2

\* ---------------------------------------------------------------- C24
\* The session state after n calls of executeTmux(args).
RECURSIVE Repeat(_, _, _)
Repeat(t, args, n) ==
  IF n = 0 THEN t ELSE Repeat(executeTmux(t, args).tmux, args, n - 1)

\* C24: while a session is attached, split-window adds exactly one pane and
\* keeps the current pane, and select-pane, with or without a direction
\* flag, makes (current pane + 1) mod pane count the current pane; with n
\* panes, n select-pane calls in a row come back to the starting pane.
C24_PaneCycling ==
  [][Attached(Tmux) =>
       /\ TmuxCalls({W("split-window"), W("split")}) =>
            /\ last'.result.Success
            /\ Tmux'.Panes = Tmux.Panes + 1
            /\ Tmux'.CurrentPane = Tmux.CurrentPane
       /\ TmuxCalls({W("select-pane")}) =>
            /\ last'.result.Success
            /\ Tmux'.CurrentPane = (Tmux.CurrentPane + 1) % Tmux.Panes
            /\ Tmux'.Panes = Tmux.Panes
            /\ Repeat(Tmux, last'.input, Tmux.Panes) = Tmux]_vars

\* select-pane wrapped around from the last of three panes to pane 0.
C24_Witness ==
  /\ last.op = "executeTmux"
  /\ last.input # <<>>
  /\ last.input[1] = W("select-pane")
  /\ last.result.Success
  /\ Tmux.Panes = 3 /\ Tmux.CurrentPane = 0

\* ---------------------------------------------------------------- C25
\* C25: while a session is attached, new-window adds exactly one window and
\* makes the newest one (index count - 1) current; select-window -n makes
\* (current + 1) mod count the current window and -p makes
\* (current - 1) mod count the current window, so -n then -p, and -p then
\* -n, give back the current window; select-window without -n or -p
\* changes nothing.
C25_WindowNavigation ==
  [][Attached(Tmux) =>
       /\ TmuxCalls({W("new-window")}) =>
            /\ last'.result.Success
            /\ Tmux'.Windows = Tmux.Windows + 1
            /\ Tmux'.CurrentWindow = Tmux'.Windows - 1
       /\ (TmuxCalls({W("select-window")}) /\ Tail(last'.input) = << W("-n") >>) =>
            /\ last'.result.Success
            /\ Tmux'.CurrentWindow = (Tmux.CurrentWindow + 1) % Tmux.Windows
            /\ executeTmux(Tmux', << W("select-window"), W("-p") >>).tmux = Tmux
       /\ (TmuxCalls({W("select-window")}) /\ Tail(last'.input) = << W("-p") >>) =>
            /\ last'.result.Success
            /\ Tmux'.CurrentWindow = (Tmux.CurrentWindow - 1) % Tmux.Windows
            /\ executeTmux(Tmux', << W("select-window"), W("-n") >>).tmux = Tmux
       /\ (TmuxCalls({W("select-window")}) /\ Tail(last'.input) = <<>>) =>
            /\ last'.result.Success
            /\ Tmux' = Tmux]_vars

\* select-window -p wrapped around from window 0 to the last of three.
C25_Witness ==
  /\ last.op = "executeTmux"
  /\ last.input = << W("select-window"), W("-p") >>
  /\ last.result.Success
  /\ Tmux.Windows = 3 /\ Tmux.CurrentWindow = 2

\* ---------------------------------------------------------------- C30
\* C30: Reset leaves the tmux session state as it was: the session flag,
\* the name, the pane and window counts, the current pane and window and
\* the detached flag after Reset equal their values before it.
C30_ResetKeepsTmux ==
  [][last'.op = "Reset" =>
       /\ Tmux'.InSession = Tmux.InSession
       /\ Tmux'.SessionName = Tmux.SessionName
       /\ Tmux'.Panes = Tmux.Panes
       /\ Tmux'.Windows = Tmux.Windows
       /\ Tmux'.CurrentPane = Tmux.CurrentPane
       /\ Tmux'.CurrentWindow = Tmux.CurrentWindow
       /\ Tmux'.Detached = Tmux.Detached]_vars

\* Reset was called while the session "0" was detached.
C30_Witness ==
  /\ last.op = "Reset"
  /\ Tmux.InSession /\ Tmux.Detached
  /\ Tmux.SessionName = W("0")

\* ---------------------------------------------------------------- C29
\* Directories the current directory is set to and then moved away.
CloneDirs == { HomeFile("projects"), DotPath, TmpPath }
MovedPath == HomeFile("moved")

\* C29: in every reachable Filesystem state, and in the state after the
\* current directory was set to a directory that was then renamed,
\* Clone().Pwd() equals Pwd() of the Filesystem that was cloned.
C29_ClonePwd ==
  LET Same(c, fs) == c.ok => Pwd(c.fs) = Pwd(fs)
      AfterMv(m, fs) == m.err = Nil => Same(Clone(m.h, fs), fs)
      AfterCd(c, d) == c.err = Nil => AfterMv(Mv(heap, c.fs, d, MovedPath), c.fs)
  IN /\ Same(Clone(heap, FS), FS)
     /\ \A d \in CloneDirs : AfterCd(Cd(heap, FS, d), d)

\* ---------------------------------------------------------------- C28
ContainsProbes == { XPath, DotPath, TmpPath, ReadmePath, HomeFile("y") }
Substrings == { <<"World">>, <<"hi">>, <<"Welcome to the terminal!">> }
HelloWorld == <<"Hello ", "World", "!">>
Goodbye == <<"Goodbye">>

\* The File holds s and is not a directory.
HoldsText(h, node, s) ==
  /\ node # NULL
  /\ ~IsDirectoryNode(h, node)
  /\ Contains(h[node].Content, s)

\* C28: in every state, file_contains(p, s) evaluates true exactly when p
\* names a file whose content contains s, and false when p is absent, is a
\* directory or its content lacks s; the same holds after a successful
\* WriteFile(p, "Hello World!") for s = "World", and after a further
\* successful WriteFile(p, "Goodbye") the goal is false.
C28_FileContains ==
  \A p \in ContainsProbes :
    LET Rule(h, s) ==
          Evaluate(h, FS, FileContainsGoal(p, s))
            <=> HoldsText(h, getNode(h, FS, resolvePath(FS, p)), s)
        Later(w2) ==
          w2.err = Nil =>
            /\ Rule(w2.h, <<"World">>)
            /\ ~Evaluate(w2.h, FS, FileContainsGoal(p, <<"World">>))
        After(w) ==
          w.err = Nil =>
            /\ Rule(w.h, <<"World">>)
            /\ Later(WriteFile(w.h, FS, p, Goodbye))
    IN /\ \A s \in Substrings : Rule(heap, s)
       /\ After(WriteFile(heap, FS, p, HelloWorld))

\* ---------------------------------------------------------------- C26
StringKeys == { "pwd_equals", "path_exists", "path_not_exists", "is_dir", "is_file" }

\* The structure is a goal of the grammar: empty, or one recognized key with
\* a value of the required shape, goals below it included.
RECURSIVE IsGoalTree(_)
IsGoalTree(raw) ==
  \/ raw = <<>>
  \/ /\ Len(raw) = 1
     /\ LET key == raw[1].key
            value == raw[1].value
        IN CASE key = "always" -> TRUE
             [] key \in StringKeys -> value.t = StringType
             [] key = "file_contains" ->
                  /\ value.t = MapType
                  /\ MapIndex(value.v, "path").t = StringType
                  /\ MapIndex(value.v, "content").t = StringType
             [] key \in {"and", "or"} ->
                  /\ value.t = ListType
                  /\ \A i \in 1..Len(value.v) :
                       value.v[i].t = MapType /\ IsGoalTree(value.v[i].v)
             [] key = "not" -> value.t = MapType /\ IsGoalTree(value.v)
             [] OTHER -> FALSE

\* The truth value of a goal of the grammar by the rules of boolean logic.
RECURSIVE Reference(_, _, _)
Reference(h, fs, raw) ==
  IF raw = <<>> THEN TRUE
  ELSE
    LET key == raw[1].key
        value == raw[1].value
        Read(r, text) == r.err = Nil /\ Contains(r.content, text)
    IN CASE key = "always" -> TRUE
         [] key = "and" -> \A i \in 1..Len(value.v) : Reference(h, fs, value.v[i].v)
         [] key = "or" -> \E i \in 1..Len(value.v) : Reference(h, fs, value.v[i].v)
         [] key = "not" -> ~Reference(h, fs, value.v)
         [] key = "pwd_equals" -> Pwd(fs) = value.v
         [] key = "path_exists" -> Exists(h, fs, value.v)
         [] key = "path_not_exists" -> ~Exists(h, fs, value.v)
         [] key = "is_dir" -> IsDir(h, fs, value.v)
         [] key = "is_file" -> Exists(h, fs, value.v) /\ ~IsDir(h, fs, value.v)
         [] key = "file_contains" ->
              Read(ReadFile(h, fs, MapIndex(value.v, "path").v),
                   MapIndex(value.v, "content").v)

\* C26: for every goal of the grammar nested to the depth MaxDepth and every
\* Filesystem state, the parsed goal evaluates to its boolean reference
\* value: the empty structure and always are true, and is the conjunction
\* of its conditions (true for none), or is the disjunction (false for
\* none), not is the negation; the result of the goal closure is that value.
C26_EvaluateMatchesReference ==
  (status = "running" /\ IsGoalTree(Mission.Raw)) =>
    /\ Evaluate(heap, FS, Mission.Goal) = Reference(heap, FS, Mission.Raw)
    /\ last.op = "Goal" => last.result.Completed = Reference(heap, FS, Mission.Raw)

\* The goal and[path_exists x, not file_contains x "World"] was evaluated to
\* true.
C26_Witness ==
  /\ last.op = "Goal"
  /\ last.result.Completed
  /\ Mission.Raw = Single("and", ListOf(<< MapOf(RawExists),
                                           MapOf(Single("not", MapOf(RawContains))) >>))

\* ---------------------------------------------------------------- C27
RecognizedKeys == StringKeys \cup { "always", "file_contains", "and", "or", "not" }

\* The structure holds an unknown key, a value of the wrong type for a
\* recognized key, an and/or value that is not a list, a list element that
\* is not a map or is itself such a structure, a not of such a structure,
\* or a file_contains without a string path or content.
RECURSIVE Malformed(_)
Malformed(raw) ==
  \E i \in 1..Len(raw) :
    LET key == raw[i].key
        value == raw[i].value
    IN \/ key \notin RecognizedKeys
       \/ key \in StringKeys /\ value.t # StringType
       \/ /\ key \in {"and", "or"}
          /\ \/ value.t # ListType
             \/ \E j \in 1..Len(value.v) :
                  value.v[j].t # MapType \/ Malformed(value.v[j].v)
       \/ key = "not" /\ (value.t # MapType \/ Malformed(value.v))
       \/ /\ key = "file_contains"
          /\ \/ value.t # MapType
             \/ MapIndex(value.v, "path").t # StringType
             \/ MapIndex(value.v, "content").t # StringType

\* C27: for every such structure ParseGoal returns an error and no goal node,
\* so the mission is skipped; the structure never becomes a goal.
C27_MalformedRejected ==
  (last.op = "convertMission" /\ Malformed(Mission.Raw)) =>
    /\ ~last.result.Success
    /\ Mission.Goal = NoGoal
    /\ status = "skipped"

\* ---------------------------------------------------------------- C31
\* Paths that lead through a file of the default Filesystem.
ThroughFile == { UnderReadme, <<"~", ".bashrc", "y">> }

\* C31: in every state, for a path with a segment that exists as a file,
\* dot-named or not, Mkdir, Touch and WriteFile fail with the
\* not-a-directory error and leave the tree as it was; no regular file ever
\* holds Children.
C31_MkdirThroughFile ==
  /\ \A i \in 1..Len(heap) :
       heap[i].Type = FileTypeRegular => heap[i].Children = <<>>
  /\ \A p \in ThroughFile :
       LET Refused(r) ==
             /\ r.err = ErrNotADirectory
             /\ Observe(r.h, FS) = Observe(heap, FS)
           Through(node) ==
             (node # NULL /\ IsFileNode(heap, node)) =>
               /\ Refused(Mkdir(heap, FS, p))
               /\ Refused(Touch(heap, FS, p))
               /\ Refused(WriteFile(heap, FS, p, <<"b">>))
       IN Through(getNode(heap, FS, resolvePath(FS, SubSeq(p, 1, Len(p) - 1))))

\* ---------------------------------------------------------------- C32
ReadProbes ==
  { ReadmePath, HomeFile(".bashrc"), XPath, DotPath, TmpPath, Slash, HomeFile("y") }

\* C32: in every state, ReadFile(path) fails with the not-found error on an
\* absent path and with the is-a-directory error on every directory, a
\* dot-named one and the root included; on a file it returns the content.
C32_ReadFileFilesOnly ==
  \A p \in ReadProbes :
    LET Reads(r, node) ==
          IF node = NULL THEN r.err = ErrNotFound
          ELSE IF IsDirectoryNode(heap, node) THEN r.err = ErrIsADirectory
          ELSE r = [content |-> heap[node].Content, err |-> Nil]
    IN Reads(ReadFile(heap, FS, p), getNode(heap, FS, resolvePath(FS, p)))

\* ---------------------------------------------------------------- C33
\* C33: in every state, every directory has empty content.
C33_DirectoriesEmpty ==
  \A i \in 1..Len(heap) : IsDirectoryNode(heap, i) => heap[i].Content = <<>>

\* ---------------------------------------------------------------- C35
\* C35: in every state, no File has two Children of the same name.
C35_UniqueSiblings ==
  \A i \in 1..Len(heap) :
    \A j, k \in 1..Len(heap[i].Children) :
      heap[heap[i].Children[j]].Name = heap[heap[i].Children[k]].Name => j = k

\* ---------------------------------------------------------------- C36
\* C36: in every state, and in the state after the current directory was
\* set to a directory that was then renamed, Pwd() names an existing
\* directory and the current-directory File is the one Pwd() resolves to.
C36_CwdValid ==
  LET Valid(h, fs) ==
        /\ Exists(h, fs, Pwd(fs))
        /\ IsDir(h, fs, Pwd(fs))
        /\ fs.Cwd = getNode(h, fs, Pwd(fs))
      AfterMv(m, fs) == m.err = Nil => Valid(m.h, fs)
      AfterCd(c, d) == c.err = Nil => AfterMv(Mv(heap, c.fs, d, MovedPath), c.fs)
  IN /\ Valid(heap, FS)
     /\ \A d \in CloneDirs : AfterCd(Cd(heap, FS, d), d)

\* ---------------------------------------------------------------- C34
\* The words joined by single spaces.
RECURSIVE Spaced(_)
Spaced(words) ==
  IF words = <<>> THEN <<>>
  ELSE IF Len(words) = 1 THEN TokText(words[1])
  ELSE TokText(words[1]) \o <<" ">> \o Spaced(Tail(words))

\* The fields are "echo w1 .. wn op f" with no other redirect among them.
EchoTo(parts, op) ==
  /\ Len(parts) >= 3
  /\ parts[1] = W("echo")
  /\ parts[Len(parts) - 1] = W(op)
  /\ \A i \in 2..(Len(parts) - 2) : ~HasGtPrefix(parts[i])

\* The fields are "echo w1 .. wn" with no redirect.
EchoPlain(parts) ==
  /\ Len(parts) >= 1
  /\ parts[1] = W("echo")
  /\ \A i \in 2..Len(parts) : ~HasGtPrefix(parts[i])

\* C34: an Execute of "echo w1 .. wn > f" that succeeds leaves f with exactly
\* the words joined by single spaces and a newline as its content; one of
\* "echo w1 .. wn >> f" leaves f with its previous content (none if f was
\* absent) followed by that line; both return an empty output.  An echo
\* without a redirect returns the joined words and changes no file.
C34_EchoRedirect ==
  [][ExecuteReturns =>
       LET parts == Fields(last'.input)
           words == SubSeq(parts, 2, Len(parts) - 2)
           f == parts[Len(parts)]
           previous == IF Exists(heap, FS, f) THEN ReadFile(heap, FS, f).content
                                           ELSE <<>>
       IN /\ (EchoTo(parts, ">") \/ EchoTo(parts, ">>")) => last'.result.Output = <<>>
          /\ (EchoTo(parts, ">") /\ last'.result.Success) =>
               ReadFile(heap', FS', f)
                 = [content |-> Spaced(words) \o <<"\n">>, err |-> Nil]
          /\ (EchoTo(parts, ">>") /\ last'.result.Success) =>
               ReadFile(heap', FS', f)
                 = [content |-> previous \o Spaced(words) \o <<"\n">>, err |-> Nil]
          /\ EchoPlain(parts) =>
               /\ last'.result.Success
               /\ last'.result.Output = Spaced(Tail(parts))
               /\ Observe(heap', FS') = Observe(heap, FS)]_vars

\* ---------------------------------------------------------------- C37
\* C37: every result that Execute returns has Success exactly when its Error
\* text is empty.
C37_SuccessIffNoError ==
  ExecuteReturned => (last.result.Success <=> last.result.Error = "")

\* An Execute returned a failed result and an earlier one had succeeded.
C37_Witness ==
  /\ ExecuteReturned
  /\ ~last.result.Success
  /\ last.result.Error # ""
  /\ Len(History) = 2
  /\ Exists(heap, FS, W("x"))

\* ---------------------------------------------------------------- C40
ReadOnlyCmds ==
  { W("pwd"), W("ls"), W("cat"), W("grep"), W("find"), W("clear"), W("help"),
    W("tmux") }

\* The fields are blank, a command that only reads, an echo without a
\* redirect, or an unrecognized command.
ReadOnly(parts) ==
  \/ parts = <<>>
  \/ parts[1] \in ReadOnlyCmds
  \/ parts[1] \notin CommandNames
  \/ EchoPlain(parts)

\* C40: an Execute of pwd, ls, cat, grep, find, echo without a redirect,
\* clear, help, any tmux subcommand, an unrecognized command or a blank line,
\* with the goal check that follows it, leaves the tree, the contents and
\* the current directory as they were.
C40_ReadOnlyCommands ==
  [][(last'.op = "Execute" /\ ReadOnly(Fields(last'.input))) =>
       /\ Observe(heap', FS') = Observe(heap, FS)
       /\ Pwd(FS') = Pwd(FS)]_vars

\* cat of readme.txt returned its text in a Filesystem that holds x.
C40_Witness ==
  /\ ExecuteReturned
  /\ last.input = << W("cat"), ReadmePath >>
  /\ last.result.Success
  /\ last.result.Output # <<>>
  /\ Exists(heap, FS, W("x"))

\* ---------------------------------------------------------------- C38
\* Every field of the session state has its zero value.
ZeroState(t) ==
  /\ ~t.InSession /\ ~t.Detached
  /\ t.SessionName = EmptyStr
  /\ t.Panes = 0 /\ t.Windows = 0
  /\ t.CurrentPane = 0 /\ t.CurrentWindow = 0

\* C38: in every state the session state is the zero state, an attached
\* session or a detached session; a session has a name that is not empty,
\* at least one pane and one window, and a current pane and window below
\* the pane and window counts.
C38_SessionWellFormed ==
  /\ ZeroState(Tmux) \/ Attached(Tmux) \/ DetachedSession(Tmux)
  /\ ~Tmux.InSession => ZeroState(Tmux)
  /\ Tmux.InSession =>
       /\ Tmux.SessionName # EmptyStr
       /\ Tmux.Panes >= 1 /\ Tmux.Windows >= 1
       /\ 0 <= Tmux.CurrentPane /\ Tmux.CurrentPane < Tmux.Panes
       /\ 0 <= Tmux.CurrentWindow /\ Tmux.CurrentWindow < Tmux.Windows

\* A detached session with the last of three panes and of three windows
\* current.
C38_Witness ==
  /\ last.op = "executeTmux"
  /\ DetachedSession(Tmux)
  /\ Tmux.Panes = 3 /\ Tmux.CurrentPane = 2
  /\ Tmux.Windows = 3 /\ Tmux.CurrentWindow = 2

\* ---------------------------------------------------------------- C39
\* C39: in every state, tmux without arguments and tmux new have the same
\* outcome, success or failure, and lead to the same session state.
C39_BareEqualsNew ==
  LET Same(bare, new) ==
        /\ bare.result.Success = new.result.Success
        /\ bare.tmux = new.tmux
  IN Same(executeTmux(Tmux, <<>>), executeTmux(Tmux, << W("new") >>))

====
